---- MODULE Spec2Model ----
(***************************************************************************)
(* A model of the Tetris engine (class Tetris / class Tetrimino) and of    *)
(* the human-play controller (class HumanController) of blurpit/tetris.    *)
(*                                                                         *)
(* Every method of the program is an operator from a program state (a      *)
(* record with one field per object field) to the program state after the  *)
(* call; the actions apply one public operation or one callback to the     *)
(* variables.  A Tetrimino object is identified by its shape: the bag      *)
(* holds exactly one object per shape for the whole life of the game, and  *)
(* `tetrimino', `nextTetrimino' and the bag slots are references to them.  *)
(*                                                                         *)
(* The repository holds the engine twice: the one the controller plays     *)
(* (class Tetris of part_000), and the one with a hold piece (class Tetris *)
(* of src/game.ts), whose lockDown() leaves the advance to the next piece  *)
(* to swapNextTetrimino().  The methods the two have in common line for    *)
(* line are modelled once; those of src/game.ts that differ are prefixed   *)
(* game_.  A state belongs to the first engine when heldTetrimino is       *)
(* Undefined: that object has no such field.                               *)
(***************************************************************************)
EXTENDS Integers, Sequences, FiniteSets, TLC

VARIABLES
    matrix,          \* Tetris.matrix: row -> column -> shape marker or Null
    pieces,          \* the seven Tetrimino objects: shape -> [facing, minos, center]
    tetrimino,       \* Tetris.tetrimino (a reference: the shape of the object)
    nextTetrimino,   \* Tetris.nextTetrimino (a reference)
    genBag,          \* Tetris.genBag: sequence of 7 references
    bagIndex,        \* Tetris.bagIndex
    linesCleared,    \* Tetris.linesCleared
    level,           \* Tetris.level
    heldTetrimino,   \* Tetris.heldTetrimino of src/game.ts (a reference, or Null)
    canHold,         \* Tetris.canHold of src/game.ts
    fallTimer,       \* HumanController.fallTimer: a timer id, or NoTimer for null
    lockDownTimer,   \* HumanController.lockDownTimer: a timer id, or NoTimer
    isSoftDropping,  \* HumanController.isSoftDropping
    timers,          \* the runtime's live timers: set of [id, kind, delay]
    last,            \* the last operation applied and what it returned
    hist             \* counters of the operations applied so far

vars == <<matrix, pieces, tetrimino, nextTetrimino, genBag, bagIndex,
          linesCleared, level, heldTetrimino, canHold, fallTimer,
          lockDownTimer, isSoftDropping, timers, last, hist>>

----------------------------------------------------------------------------
(* Configuration: the TetrisConfig the Controller constructs the game with *)

matrixWidth == 10
matrixHeight == 20
lockDownTimerMs == 500
linesPerLevel == 10
maxLevel == 15
softDropSpeedFactor == 20

(* Tetris.spawnTetrimino: this.tetrimino.setCenterPos(4, 20) *)
spawnX == 4
spawnY == 20

----------------------------------------------------------------------------
(* Bounds of the model *)

\* The most key-down and lock-down events of the controller in one behaviour
\* (fall ticks and key-up events are not counted)
MaxEvents == 2

\* The most clearLine calls of one game in SpecLevel: past the
\* maxLevel * linesPerLevel lines at which the cap of the level applies
MaxLines == 152

\* The most reset() calls in one behaviour of SpecLevel and SpecBag
MaxResets == 1

\* The most clearLine calls in one behaviour of SpecClear
MaxClears == 2

\* The most pieces drawn in one behaviour of SpecBag: two bags and two more
MaxDraws == 16

\* The number of filled rows of the board with two wells (WellsBoard)
WellDepth == 4

\* The most lockDown calls in one behaviour of SpecLock
MaxLocks == 1

\* The most calls that assign to a field of the engine in one behaviour of
\* SpecFrame
MaxCalls == 3

\* The most pieces drawn in one behaviour of SpecHold by hold(), by
\* swapNextTetrimino() and by reset(), which draws two
MaxAdvances == 5

\* The most moveDown calls in a row in one behaviour of SpecFall: one more
\* than it takes a piece to come down from where it spawns to the floor
MaxFalls == 21

----------------------------------------------------------------------------
(* Enumerations and static tables *)

Shapes == {"O", "I", "T", "L", "J", "S", "Z"}
Null == "null"

(* The value of a field the object does not have *)
Undefined == "undefined"

North == 0
East == 1
South == 2
West == 3
Facings == 0..3

Rotations == {"CW", "CCW"}

Rows == 0..(matrixHeight * 2 - 1)
Cols == 0..(matrixWidth - 1)

(* const Minos: the initial offsets of each shape, relative to the center *)
Minos ==
    [O |-> << <<0, 0>>, <<1, 0>>, <<0, 1>>, <<1, 1>> >>,
     I |-> << <<-1, 0>>, <<0, 0>>, <<1, 0>>, <<2, 0>> >>,
     T |-> << <<-1, 0>>, <<0, 0>>, <<1, 0>>, <<0, 1>> >>,
     L |-> << <<-1, 0>>, <<0, 0>>, <<1, 0>>, <<1, 1>> >>,
     J |-> << <<-1, 1>>, <<-1, 0>>, <<0, 0>>, <<1, 0>> >>,
     S |-> << <<-1, 0>>, <<0, 0>>, <<0, 1>>, <<1, 1>> >>,
     Z |-> << <<-1, 1>>, <<0, 1>>, <<0, 0>>, <<1, 0>> >>]

(* SRS test points: row -> facing (+1) -> offset *)
OffsetsTLJSZ ==
    << << <<0, 0>>, <<0, 0>>,  <<0, 0>>, <<0, 0>>   >>,
       << <<0, 0>>, <<1, 0>>,  <<0, 0>>, <<-1, 0>>  >>,
       << <<0, 0>>, <<1, -1>>, <<0, 0>>, <<-1, -1>> >>,
       << <<0, 0>>, <<0, 2>>,  <<0, 0>>, <<0, 2>>   >>,
       << <<0, 0>>, <<1, 2>>,  <<0, 0>>, <<1, 2>>   >> >>

OffsetsI ==
    << << <<0, 0>>,  <<-1, 0>>, <<-1, 1>>, <<0, 1>>  >>,
       << <<-1, 0>>, <<0, 0>>,  <<1, 1>>,  <<0, 1>>  >>,
       << <<2, 0>>,  <<0, 0>>,  <<-2, 1>>, <<0, 1>>  >>,
       << <<-1, 0>>, <<0, 1>>,  <<1, 0>>,  <<0, -1>> >>,
       << <<2, 0>>,  <<0, -2>>, <<-2, 0>>, <<0, 2>>  >> >>

OffsetsO ==
    << << <<0, 0>>, <<0, -1>>, <<-1, -1>>, <<-1, 0>> >> >>

SRSOffsets ==
    [O |-> OffsetsO, I |-> OffsetsI, T |-> OffsetsTLJSZ, L |-> OffsetsTLJSZ,
     J |-> OffsetsTLJSZ, S |-> OffsetsTLJSZ, Z |-> OffsetsTLJSZ]

(* A null timer handle; the runtime's timer ids are positive *)
NoTimer == 0

(* The order in which the constructor fills genBag *)
InitialBag == <<"O", "I", "T", "L", "J", "S", "Z">>

EmptyRow == [x \in Cols |-> Null]
EmptyMatrix == [y \in Rows |-> EmptyRow]

(* new Tetrimino(game, shape): copyMinos, facing North, center [0, 0] *)
NewTetrimino(shape) ==
    [facing |-> North, minos |-> Minos[shape], center |-> <<0, 0>>]

----------------------------------------------------------------------------
(* The program state as one record: the fields of the Tetris object, of    *)
(* the HumanController and of the runtime's timer table, and three fields  *)
(* that record how the last call ended: `ret' its boolean return value,    *)
(* `exc' whether it threw, `kick' the SRS test point a rotation resolved   *)
(* at (0: none).                                                           *)

Ret(g, v) == [g EXCEPT !.ret = v]
Throw(g) == [g EXCEPT !.exc = TRUE]

(* F of the value of v, v computed once *)
Bind(v, F(_)) == CHOOSE r \in {F(x) : x \in {v}} : TRUE

(* Run F on g unless an exception is already propagating *)
Then(g, F(_)) == Bind(g, LAMBDA s : IF s.exc THEN s ELSE F(s))

Active(g) == g.pieces[g.tetrimino]

----------------------------------------------------------------------------
(* class Tetris: collision *)

(* One outcome of checkCollision: it returns a boolean, or it throws the   *)
(* TypeError of reading matrix[y][x] where matrix[y] is undefined          *)
Returns(b) == [exc |-> FALSE, ret |-> b]
TypeError == [exc |-> TRUE, ret |-> FALSE]

RECURSIVE checkCollisionFrom(_, _, _, _, _)
checkCollisionFrom(m, centerX, centerY, minos, i) ==
    IF i > Len(minos) THEN Returns(FALSE)
    ELSE LET x == centerX + minos[i][1]
             y == centerY + minos[i][2]
         IN  IF x < 0 \/ x >= matrixWidth \/ y < 0 THEN Returns(TRUE)
             ELSE IF y \notin Rows THEN TypeError
             ELSE IF m[y][x] # Null THEN Returns(TRUE)
             ELSE checkCollisionFrom(m, centerX, centerY, minos, i + 1)

checkCollision(g, centerX, centerY, minos) ==
    checkCollisionFrom(g.matrix, centerX, centerY, minos, 1)

----------------------------------------------------------------------------
(* class Tetrimino *)

setCenterPos(g, p, x, y) == [g EXCEPT !.pieces[p].center = <<x, y>>]

resetRotation(g, p) ==
    [g EXCEPT !.pieces[p].facing = North, !.pieces[p].minos = Minos[p]]

(* A variant of rotateMinosCW that reads x after it has overwritten it *)
rotateMinosCW_NoTemp(g, p) ==
    LET t == g.pieces[p]
    IN  [g EXCEPT !.pieces[p].minos =
                      [i \in DOMAIN t.minos |-> <<t.minos[i][2], -t.minos[i][2]>>],
                  !.pieces[p].facing = (t.facing + 1) % 4]

rotateMinosCW(g, p) ==
    LET t == g.pieces[p]
    IN  [g EXCEPT !.pieces[p].minos =
                      [i \in DOMAIN t.minos |-> <<t.minos[i][2], -t.minos[i][1]>>],
                  !.pieces[p].facing = (t.facing + 1) % 4]

(* A variant of rotateMinosCCW that reads x after it has overwritten it *)
rotateMinosCCW_NoTemp(g, p) ==
    LET t == g.pieces[p]
    IN  [g EXCEPT !.pieces[p].minos =
                      [i \in DOMAIN t.minos |-> <<-t.minos[i][2], -t.minos[i][2]>>],
                  !.pieces[p].facing = (t.facing + 3) % 4]

rotateMinosCCW(g, p) ==
    LET t == g.pieces[p]
    IN  [g EXCEPT !.pieces[p].minos =
                      [i \in DOMAIN t.minos |-> <<-t.minos[i][2], t.minos[i][1]>>],
                  !.pieces[p].facing = (t.facing + 3) % 4]

(* A variant of KickOf with the subtraction the other way round *)
KickOf_ToMinusFrom(shape, row, oldFacing, newFacing) ==
    LET testOffsets == SRSOffsets[shape][row]
        offsetFrom == testOffsets[oldFacing + 1]
        offsetTo == testOffsets[newFacing + 1]
    IN  <<offsetTo[1] - offsetFrom[1], offsetTo[2] - offsetFrom[2]>>

(* The kick of one test point: offsetFrom - offsetTo *)
KickOf(shape, row, oldFacing, newFacing) ==
    LET testOffsets == SRSOffsets[shape][row]
        offsetFrom == testOffsets[oldFacing + 1]
        offsetTo == testOffsets[newFacing + 1]
    IN  <<offsetFrom[1] - offsetTo[1], offsetFrom[2] - offsetTo[2]>>

RECURSIVE testSRSOffsetsFrom(_, _, _, _, _)
testSRSOffsetsFrom(g, p, oldFacing, newFacing, row) ==
    IF row > Len(SRSOffsets[p]) THEN [Ret(g, FALSE) EXCEPT !.kick = 0]
    ELSE LET t == g.pieces[p]
             k == KickOf(p, row, oldFacing, newFacing)
             collided == checkCollision(g, t.center[1] + k[1],
                                        t.center[2] + k[2], t.minos)
         IN  IF collided.exc THEN Throw(g)
             ELSE IF ~collided.ret
                  THEN [Ret(g, TRUE) EXCEPT
                            !.pieces[p].center =
                                <<t.center[1] + k[1], t.center[2] + k[2]>>,
                            !.kick = row]
                  ELSE testSRSOffsetsFrom(g, p, oldFacing, newFacing, row + 1)

testSRSOffsets(g, p, oldFacing, newFacing) ==
    testSRSOffsetsFrom(g, p, oldFacing, newFacing, 1)

(* A variant of Tetrimino_rotate whose undo turns the same way again *)
Tetrimino_rotate_SameWayUndo(g, p, dir) ==
    LET oldFacing == g.pieces[p].facing
        turned == IF dir = "CW" THEN rotateMinosCW(g, p) ELSE rotateMinosCCW(g, p)
        tested == testSRSOffsets(turned, p, oldFacing, turned.pieces[p].facing)
    IN  IF tested.exc THEN tested
        ELSE IF ~tested.ret
             THEN Ret(IF dir = "CW" THEN rotateMinosCW(tested, p)
                                    ELSE rotateMinosCCW(tested, p), FALSE)
             ELSE Ret(tested, TRUE)

Tetrimino_rotate(g, p, dir) ==
    LET oldFacing == g.pieces[p].facing
        turned == IF dir = "CW" THEN rotateMinosCW(g, p) ELSE rotateMinosCCW(g, p)
        tested == testSRSOffsets(turned, p, oldFacing, turned.pieces[p].facing)
    IN  IF tested.exc THEN tested
        ELSE IF ~tested.ret
             THEN Ret(IF dir = "CW" THEN rotateMinosCCW(tested, p)
                                    ELSE rotateMinosCW(tested, p), FALSE)
             ELSE Ret(tested, TRUE)

----------------------------------------------------------------------------
(* class Tetris: the bag *)

(* The six values Math.floor(Math.random() * (i + 1)) takes during one     *)
(* shuffle, rnd[i] for the iteration with index i: any value of 0..i.      *)
(* The shuffles that leave the bag as it is but for one swap with slot 0:  *)
(* one for each shape the bag can start with                               *)
FirstDraws == {[i \in 1..6 |-> IF i = k THEN 0 ELSE i] : k \in 0..6}

Swap(bag, a, b) == [bag EXCEPT ![a] = bag[b], ![b] = bag[a]]

(* i runs from genBag.length - 1 down to 1 (0-based); the bag is 1-based *)
RECURSIVE shuffleFrom(_, _, _)
shuffleFrom(bag, rnd, i) ==
    IF i <= 0 THEN bag
    ELSE shuffleFrom(Swap(bag, i + 1, rnd[i] + 1), rnd, i - 1)

shuffleBag(g, rnd) ==
    [g EXCEPT !.genBag = shuffleFrom(g.genBag, rnd, Len(g.genBag) - 1),
              !.bagIndex = 0]

(* A variant of getNextTetrimino that reshuffles one draw early *)
getNextTetrimino_ShufflesEarly(g, rnd) ==
    LET b == IF g.bagIndex >= Len(g.genBag) - 1 THEN shuffleBag(g, rnd) ELSE g
    IN  [b EXCEPT !.bagIndex = b.bagIndex + 1]

(* getNextTetrimino, in two parts: the state after the call, and the       *)
(* reference it returns                                                    *)
getNextTetrimino(g, rnd) ==
    LET b == IF g.bagIndex >= Len(g.genBag) THEN shuffleBag(g, rnd) ELSE g
    IN  [b EXCEPT !.bagIndex = b.bagIndex + 1]

Drawn(g) == g.genBag[g.bagIndex]

----------------------------------------------------------------------------
(* class Tetris: operations *)

spawnTetrimino(g) ==
    resetRotation(setCenterPos(g, g.tetrimino, spawnX, spawnY), g.tetrimino)

SetY(g, y) == [g EXCEPT !.pieces[g.tetrimino].center[2] = y]
SetX(g, x) == [g EXCEPT !.pieces[g.tetrimino].center[1] = x]

(* A variant of moveDown without its second probe *)
moveDown_NoLookAhead(g) ==
    LET t == Active(g)
        below == checkCollision(g, t.center[1], t.center[2] - 1, t.minos)
    IN  IF below.exc THEN Throw(g)
        ELSE IF below.ret THEN Ret(g, TRUE)
        ELSE Ret(SetY(g, t.center[2] - 1), FALSE)

(* A variant of moveDown that reports a piece that has just landed as not  *)
(* landed                                                                  *)
moveDown_LandingIsFalse(g) ==
    LET t == Active(g)
        below == checkCollision(g, t.center[1], t.center[2] - 1, t.minos)
    IN  IF below.exc THEN Throw(g)
        ELSE IF below.ret THEN Ret(g, TRUE)
        ELSE Ret(SetY(g, t.center[2] - 1), FALSE)

(* A variant of moveDown without its first probe *)
moveDown_NoRestProbe(g) ==
    LET t == Active(g)
        below2 == checkCollision(g, t.center[1], t.center[2] - 2, t.minos)
    IN  IF below2.exc THEN Throw(g)
        ELSE IF below2.ret THEN Ret(SetY(g, t.center[2] - 1), TRUE)
        ELSE Ret(SetY(g, t.center[2] - 1), FALSE)

moveDown(g) ==
    LET t == Active(g)
        below == checkCollision(g, t.center[1], t.center[2] - 1, t.minos)
        below2 == checkCollision(g, t.center[1], t.center[2] - 2, t.minos)
    IN  IF below.exc THEN Throw(g)
        ELSE IF below.ret THEN Ret(g, TRUE)
        ELSE IF below2.exc THEN Throw(g)
        ELSE IF below2.ret THEN Ret(SetY(g, t.center[2] - 1), TRUE)
        ELSE Ret(SetY(g, t.center[2] - 1), FALSE)

Max(a, b) == IF a >= b THEN a ELSE b
Min(a, b) == IF a <= b THEN a ELSE b

(* A variant of moveX that leaves a block where the piece was *)
moveX_LeavesATrail(g, dx) ==
    LET t == Active(g)
        x == Max(0, Min(t.center[1] + dx, matrixWidth - 1))
        c == checkCollision(g, x, t.center[2], t.minos)
    IN  IF c.exc THEN Throw(g)
        ELSE IF ~c.ret
             THEN Ret([SetX(g, x) EXCEPT
                          !.matrix[t.center[2]][t.center[1]] = g.tetrimino], TRUE)
             ELSE Ret(g, FALSE)

moveX(g, dx) ==
    LET t == Active(g)
        x == Max(0, Min(t.center[1] + dx, matrixWidth - 1))
        c == checkCollision(g, x, t.center[2], t.minos)
    IN  IF c.exc THEN Throw(g)
        ELSE IF ~c.ret THEN Ret(SetX(g, x), TRUE)
        ELSE Ret(g, FALSE)

rotate(g, dir) == Tetrimino_rotate(g, g.tetrimino, dir)

RowFull(m, y) == \A x \in Cols : m[y][x] # Null

RECURSIVE getFullLinesFrom(_, _)
getFullLinesFrom(m, y) ==
    IF y < 0 THEN <<>>
    ELSE (IF RowFull(m, y) THEN <<y>> ELSE <<>>) \o getFullLinesFrom(m, y - 1)

(* A variant of getFullLines whose scan starts at the top of the buffer *)
getFullLines_FromBufferTop(g) == getFullLinesFrom(g.matrix, matrixHeight * 2 - 1)

getFullLines(g) == getFullLinesFrom(g.matrix, matrixHeight - 1)

(* A variant of shiftRowsFrom whose loop runs through the buffer rows,    *)
(* the top row left empty                                                 *)
RECURSIVE shiftRowsFrom_ThroughBuffer(_, _)
shiftRowsFrom_ThroughBuffer(m, y) ==
    IF y >= matrixHeight * 2 - 1
    THEN [m EXCEPT ![matrixHeight * 2 - 1] = [x \in Cols |-> Null]]
    ELSE shiftRowsFrom_ThroughBuffer([m EXCEPT ![y] = m[y + 1]], y + 1)

(* A variant of shiftRowsFrom whose loop runs from the top row down *)
RECURSIVE shiftRowsFrom_TopDown(_, _)
shiftRowsFrom_TopDown(m, y) ==
    IF y >= matrixHeight THEN m
    ELSE LET above == shiftRowsFrom_TopDown(m, y + 1)
         IN  [above EXCEPT ![y] = above[y + 1]]

(* The row loop of clearLine: matrix[y][x] = matrix[y+1][x] for every x *)
RECURSIVE shiftRowsFrom(_, _)
shiftRowsFrom(m, y) ==
    IF y >= matrixHeight THEN m
    ELSE shiftRowsFrom([m EXCEPT ![y] = m[y + 1]], y + 1)

(* A variant of clearLine that raises the level with every line *)
clearLine_LevelPerLine(g, y) ==
    LET n == g.linesCleared + 1
    IN  [g EXCEPT !.matrix = shiftRowsFrom(g.matrix, y),
                  !.linesCleared = n,
                  !.level = Min(1 + n, maxLevel)]

clearLine(g, y) ==
    LET n == g.linesCleared + 1
    IN  [g EXCEPT !.matrix = shiftRowsFrom(g.matrix, y),
                  !.linesCleared = n,
                  !.level = Min(1 + (n \div linesPerLevel), maxLevel)]

(* A variant of ghostFrom that returns the row in which it collided *)
RECURSIVE ghostFrom_OneTooLow(_, _)
ghostFrom_OneTooLow(g, y) ==
    LET t == Active(g)
        c == checkCollision(g, t.center[1], y - 1, t.minos)
    IN  IF c.exc THEN [exc |-> TRUE, y |-> y]
        ELSE IF c.ret THEN [exc |-> FALSE, y |-> y - 1]
        ELSE ghostFrom_OneTooLow(g, y - 1)

RECURSIVE ghostFrom(_, _)
ghostFrom(g, y) ==
    LET t == Active(g)
        c == checkCollision(g, t.center[1], y - 1, t.minos)
    IN  IF c.exc THEN [exc |-> TRUE, y |-> y]
        ELSE IF c.ret THEN [exc |-> FALSE, y |-> y]
        ELSE ghostFrom(g, y - 1)

(* [exc, y]: the row returned, or exc when checkCollision throws *)
getGhostTetriminoY(g) == ghostFrom(g, Active(g).center[2])

hardDrop(g) ==
    LET ghost == getGhostTetriminoY(g)
    IN  IF ghost.exc THEN Throw(g) ELSE SetY(g, ghost.y)

(* The mino loop of lockDown: matrix[y + mino[1]][x + mino[0]] = shape.    *)
(* Writing through a row that does not exist throws; a column outside the  *)
(* row only adds a property to the row array and changes no cell.          *)
RECURSIVE writeMinosFrom(_, _, _, _, _, _)
writeMinosFrom(g, x, y, shape, minos, i) ==
    IF i > Len(minos) THEN g
    ELSE LET cx == x + minos[i][1]
             cy == y + minos[i][2]
         IN  IF cy \notin Rows THEN Throw(g)
             ELSE writeMinosFrom(
                      IF cx \in Cols
                      THEN [g EXCEPT !.matrix[cy][cx] = shape]
                      ELSE g,
                      x, y, shape, minos, i + 1)

(* A variant of lockDown that does not spawn the new active piece *)
lockDown_NoSpawn(g, rnd) ==
    LET t == Active(g)
        written == writeMinosFrom(g, t.center[1], t.center[2], g.tetrimino,
                                  t.minos, 1)
        drawn == getNextTetrimino(written, rnd)
    IN  IF written.exc THEN written
        ELSE [drawn EXCEPT !.tetrimino = written.nextTetrimino,
                           !.nextTetrimino = Drawn(drawn)]

lockDown(g, rnd) ==
    LET t == Active(g)
    IN  Then(writeMinosFrom(g, t.center[1], t.center[2], g.tetrimino, t.minos, 1),
             LAMBDA written :
                 Bind(getNextTetrimino(written, rnd),
                      LAMBDA drawn :
                          Bind([drawn EXCEPT
                                    !.tetrimino = written.nextTetrimino,
                                    !.nextTetrimino = Drawn(drawn)],
                               spawnTetrimino)))

(* A variant of reset that clears the rows below the skyline only *)
reset_PlayableRowsOnly(g, rnd) ==
    LET cleared == [y \in Rows |-> IF y < matrixHeight THEN EmptyRow
                                   ELSE g.matrix[y]]
        shuffled == shuffleBag([g EXCEPT !.matrix = cleared], rnd)
        first == getNextTetrimino(shuffled, rnd)
        second == getNextTetrimino(first, rnd)
    IN  spawnTetrimino([second EXCEPT !.tetrimino = Drawn(first),
                                      !.nextTetrimino = Drawn(second),
                                      !.linesCleared = 0,
                                      !.level = 1])

(* A variant of reset that keeps the level *)
reset_KeepsLevel(g, rnd) ==
    LET shuffled == shuffleBag([g EXCEPT !.matrix = EmptyMatrix], rnd)
        first == getNextTetrimino(shuffled, rnd)
        second == getNextTetrimino(first, rnd)
    IN  spawnTetrimino([second EXCEPT !.tetrimino = Drawn(first),
                                      !.nextTetrimino = Drawn(second),
                                      !.linesCleared = 0])

reset(g, rnd) ==
    LET shuffled == shuffleBag([g EXCEPT !.matrix = EmptyMatrix], rnd)
        first == getNextTetrimino(shuffled, rnd)
        second == getNextTetrimino(first, rnd)
    IN  spawnTetrimino([second EXCEPT !.tetrimino = Drawn(first),
                                      !.nextTetrimino = Drawn(second),
                                      !.linesCleared = 0,
                                      !.level = 1])

(* new Tetris(config); this class has no heldTetrimino and no canHold *)
NewTetris(rnd) ==
    LET g0 == [matrix |-> EmptyMatrix,
               pieces |-> [s \in Shapes |-> NewTetrimino(s)],
               tetrimino |-> "O", nextTetrimino |-> "O",
               genBag |-> InitialBag, bagIndex |-> 0,
               linesCleared |-> 0, level |-> 1,
               heldTetrimino |-> Undefined, canHold |-> FALSE,
               fallTimer |-> NoTimer, lockDownTimer |-> NoTimer,
               isSoftDropping |-> FALSE, timers |-> {},
               ret |-> FALSE, exc |-> FALSE, kick |-> 0]
        shuffled == shuffleBag(g0, rnd)
        first == getNextTetrimino(shuffled, rnd)
        second == getNextTetrimino(first, rnd)
    IN  spawnTetrimino([second EXCEPT !.tetrimino = Drawn(first),
                                      !.nextTetrimino = Drawn(second)])

----------------------------------------------------------------------------
(* class Tetris of src/game.ts: what differs from the class above.  The    *)
(* spawn point it computes, (floor(matrixWidth / 2) - 1, matrixHeight), is *)
(* (spawnX, spawnY) for the matrix of 10 by 20.                            *)

(* new Tetris(config): no piece held, a hold allowed *)
game_NewTetris(rnd) ==
    [NewTetris(rnd) EXCEPT !.heldTetrimino = Null, !.canHold = TRUE]

swapNextTetrimino(g, rnd) ==
    LET drawn == getNextTetrimino(g, rnd)
    IN  [drawn EXCEPT !.tetrimino = g.nextTetrimino,
                      !.nextTetrimino = Drawn(drawn),
                      !.canHold = TRUE]

(* A variant of hold that does not use up the hold *)
hold_StaysAllowed(g, rnd) ==
    IF g.canHold
    THEN LET drawn == getNextTetrimino(g, rnd)
             swapped ==
                 IF g.heldTetrimino = Null
                 THEN [drawn EXCEPT !.heldTetrimino = g.tetrimino,
                                    !.tetrimino = g.nextTetrimino,
                                    !.nextTetrimino = Drawn(drawn)]
                 ELSE [g EXCEPT !.heldTetrimino = g.tetrimino,
                                !.tetrimino = g.heldTetrimino]
         IN  Ret(spawnTetrimino(swapped), TRUE)
    ELSE Ret(g, FALSE)

hold(g, rnd) ==
    IF g.canHold
    THEN LET drawn == getNextTetrimino(g, rnd)
             swapped ==
                 IF g.heldTetrimino = Null
                 THEN [drawn EXCEPT !.heldTetrimino = g.tetrimino,
                                    !.tetrimino = g.nextTetrimino,
                                    !.nextTetrimino = Drawn(drawn)]
                 ELSE [g EXCEPT !.heldTetrimino = g.tetrimino,
                                !.tetrimino = g.heldTetrimino]
         IN  Ret([spawnTetrimino(swapped) EXCEPT !.canHold = FALSE], TRUE)
    ELSE Ret(g, FALSE)

(* lockDown() of src/game.ts: the mino loop and nothing else *)
game_lockDown(g) ==
    LET t == Active(g)
    IN  writeMinosFrom(g, t.center[1], t.center[2], g.tetrimino, t.minos, 1)

(* A variant of checkLockOutFrom that stops at the first cell it finds at  *)
(* or above the skyline                                                   *)
RECURSIVE checkLockOutFrom_AnyAbove(_, _)
checkLockOutFrom_AnyAbove(g, i) ==
    LET t == Active(g)
    IN  IF i > Len(t.minos) THEN Ret(g, FALSE)
        ELSE IF t.center[2] + t.minos[i][2] >= matrixHeight THEN Ret(g, TRUE)
        ELSE checkLockOutFrom_AnyAbove(g, i + 1)

(* The mino loop of checkLockOut: false at the first cell below the        *)
(* skyline                                                                 *)
RECURSIVE checkLockOutFrom(_, _)
checkLockOutFrom(g, i) ==
    LET t == Active(g)
    IN  IF i > Len(t.minos) THEN Ret(g, TRUE)
        ELSE IF t.center[2] + t.minos[i][2] < matrixHeight THEN Ret(g, FALSE)
        ELSE checkLockOutFrom(g, i + 1)

checkLockOut(g) == checkLockOutFrom(g, 1)

(* reset() of src/game.ts: as above, and canHold = true; the held piece    *)
(* is not touched                                                          *)
game_reset(g, rnd) == [reset(g, rnd) EXCEPT !.canHold = TRUE]

----------------------------------------------------------------------------
(* class Controller *)

(* drawGraphics reads the state; with showGhost it calls                   *)
(* getGhostTetriminoY, whose checkCollision may throw                      *)
drawGraphics(g) == IF getGhostTetriminoY(g).exc THEN Throw(g) ELSE g

RECURSIVE clearLinesOf(_, _, _)
clearLinesOf(g, lines, i) ==
    IF i > Len(lines) THEN g
    ELSE clearLinesOf(clearLine(g, lines[i]), lines, i + 1)

(* A variant of Controller_clearFullLines that clears the lowest line     *)
(* first                                                                  *)
Controller_clearFullLines_BottomUp(g) ==
    LET lines == getFullLines(g)
    IN  clearLinesOf(g, [i \in 1..Len(lines) |-> lines[Len(lines) + 1 - i]], 1)

(* this.game.getFullLines().forEach((y) => this.game.clearLine(y)) *)
Controller_clearFullLines(g) == clearLinesOf(g, getFullLines(g), 1)

Controller_moveLeft(g) == Then(moveX(g, -1), drawGraphics)
Controller_moveRight(g) == Then(moveX(g, 1), drawGraphics)
Controller_rotate(g, dir) == Then(rotate(g, dir), drawGraphics)
Controller_reset(g, rnd) == reset(g, rnd)

----------------------------------------------------------------------------
(* class HumanController: timers *)

(* 1000 * Math.pow(0.8 - (level-1)*0.007, level-1) in microseconds, in     *)
(* fixed point: one multiplication by (800 - 7*(level-1))/1000 per factor  *)
RECURSIVE PowFixed(_, _, _)
PowFixed(acc, base, n) ==
    IF n = 0 THEN acc ELSE PowFixed((acc * base) \div 1000, base, n - 1)

getFallSpeed(g) ==
    LET speed == PowFixed(1000000, 800 - (g.level - 1) * 7, g.level - 1)
    IN  IF g.isSoftDropping THEN speed \div softDropSpeedFactor ELSE speed

(* The handle setInterval / setTimeout returns: an id no live timer has,   *)
(* and not the id `old' of the timer cleared just before (the runtime      *)
(* hands out no id twice, so a timer armed anew is told from the one it    *)
(* replaces)                                                               *)
NewTimerId(g, old) ==
    LET used == {t.id : t \in g.timers} \cup {g.fallTimer, g.lockDownTimer, old}
    IN  CHOOSE n \in 1..(Cardinality(g.timers) + 4) :
            /\ n \notin used
            /\ \A k \in 1..(n - 1) : k \in used

(* clearInterval / clearTimeout *)
ClearTimer(g, id) == [g EXCEPT !.timers = {t \in g.timers : t.id # id}]

interruptFallLoop(g) ==
    IF g.fallTimer # NoTimer
    THEN [ClearTimer(g, g.fallTimer) EXCEPT !.fallTimer = NoTimer]
    ELSE g

(* A variant of startFallLoop without its call of interruptFallLoop *)
startFallLoop_NoCancel(g) ==
    LET id == NewTimerId(g, NoTimer)
    IN  [g EXCEPT !.timers = g.timers \cup
                      {[id |-> id, kind |-> "interval", delay |-> getFallSpeed(g)]},
                  !.fallTimer = id]

startFallLoop(g) ==
    LET a == interruptFallLoop(g)
        id == NewTimerId(a, g.fallTimer)
    IN  [a EXCEPT !.timers = a.timers \cup
                      {[id |-> id, kind |-> "interval", delay |-> getFallSpeed(a)]},
                  !.fallTimer = id]

interruptLockDownTimer(g) ==
    IF g.lockDownTimer # NoTimer
    THEN [ClearTimer(g, g.lockDownTimer) EXCEPT !.lockDownTimer = NoTimer]
    ELSE g

startLockDownTimer(g) ==
    LET a == interruptLockDownTimer(g)
        id == NewTimerId(a, g.lockDownTimer)
    IN  [a EXCEPT !.timers = a.timers \cup
                      {[id |-> id, kind |-> "timeout",
                        delay |-> lockDownTimerMs * 1000]},
                  !.lockDownTimer = id]

----------------------------------------------------------------------------
(* class HumanController: operations *)

HumanController_start(g) == drawGraphics(startFallLoop(g))

(* A variant of HumanController.moveDown that does not look at what the   *)
(* engine's moveDown returns                                               *)
HumanController_moveDown_ArmsAlways(g) ==
    Then(Bind(moveDown(g),
              LAMBDA a : IF ~a.exc
                         THEN startLockDownTimer(interruptFallLoop(a))
                         ELSE a),
         drawGraphics)

HumanController_moveDown(g) ==
    Then(Bind(moveDown(g),
              LAMBDA a : IF ~a.exc /\ a.ret
                         THEN startLockDownTimer(interruptFallLoop(a))
                         ELSE a),
         drawGraphics)

(* A variant of HumanController_softDrop that leaves the fall loop as it  *)
(* runs                                                                   *)
HumanController_softDrop_KeepsInterval(g) ==
    IF ~g.isSoftDropping
    THEN HumanController_moveDown([g EXCEPT !.isSoftDropping = TRUE])
    ELSE g

HumanController_softDrop(g) ==
    IF ~g.isSoftDropping
    THEN HumanController_moveDown(
             startFallLoop(interruptFallLoop([g EXCEPT !.isSoftDropping = TRUE])))
    ELSE g

(* A variant of HumanController_endSoftDrop that leaves the fall loop as  *)
(* it runs                                                                *)
HumanController_endSoftDrop_KeepsInterval(g) ==
    IF g.isSoftDropping THEN [g EXCEPT !.isSoftDropping = FALSE] ELSE g

HumanController_endSoftDrop(g) ==
    IF g.isSoftDropping
    THEN startFallLoop(interruptFallLoop([g EXCEPT !.isSoftDropping = FALSE]))
    ELSE g

HumanController_clearFullLines(g) ==
    LET levelBefore == g.level
    IN  Bind(Controller_clearFullLines(g),
             LAMBDA a : IF a.level # levelBefore
                        THEN startFallLoop(interruptFallLoop(a))
                        ELSE a)

(* A variant of HumanController_lockDown that arms the fall loop before   *)
(* the lines are cleared, and clears them as the base controller does     *)
HumanController_lockDown_ArmsBeforeClears(g, rnd) ==
    Then(Then(Then(lockDown([g EXCEPT !.lockDownTimer = NoTimer], rnd),
                   startFallLoop),
              Controller_clearFullLines),
         drawGraphics)

(* A variant of HumanController_lockDown that does not start the fall     *)
(* loop                                                                    *)
HumanController_lockDown_NoFallLoop(g, rnd) ==
    Then(Then(lockDown([g EXCEPT !.lockDownTimer = NoTimer], rnd),
              HumanController_clearFullLines),
         drawGraphics)

HumanController_lockDown(g, rnd) ==
    Then(Then(Then(lockDown([g EXCEPT !.lockDownTimer = NoTimer], rnd),
                   HumanController_clearFullLines),
              startFallLoop),
         drawGraphics)

(* A variant of HumanController_hardDrop that leaves the countdown running *)
HumanController_hardDrop_KeepsCountdown(g, rnd) ==
    Then(Then(hardDrop(g),
              LAMBDA s : HumanController_lockDown(s, rnd)),
         drawGraphics)

HumanController_hardDrop(g, rnd) ==
    Then(Then(hardDrop(interruptLockDownTimer(g)),
              LAMBDA s : HumanController_lockDown(s, rnd)),
         drawGraphics)

(* A variant of HumanController_reset that leaves the lock-down timer *)
HumanController_reset_KeepsLockDown(g, rnd) ==
    interruptFallLoop(Controller_reset(g, rnd))

HumanController_reset(g, rnd) ==
    interruptLockDownTimer(interruptFallLoop(Controller_reset(g, rnd)))

Keys == {"ArrowLeft", "ArrowRight", "ArrowUp", "x", "z", "ArrowDown", " ", "r"}

(* The switch of the keydown listener: the state after it, `ret' holding   *)
(* the local `moved'                                                       *)
KeySwitch(g, key, rnd) ==
    CASE key = "ArrowLeft" -> Controller_moveLeft(g)
      [] key = "ArrowRight" -> Controller_moveRight(g)
      [] key = "ArrowUp" -> Controller_rotate(g, "CW")
      [] key = "x" -> Controller_rotate(g, "CW")
      [] key = "z" -> Controller_rotate(g, "CCW")
      [] key = "ArrowDown" -> Ret(HumanController_softDrop(g), FALSE)
      [] key = " " -> Ret(HumanController_hardDrop(g, rnd), FALSE)
      [] key = "r" -> Ret(Then(HumanController_reset(g, rnd),
                               HumanController_start), FALSE)
      [] OTHER -> Ret(g, FALSE)

(* A variant of keydown that cancels the countdown and does not start the  *)
(* fall loop                                                               *)
keydown_CancelsOnly(g, key, rnd) ==
    Bind(KeySwitch(g, key, rnd),
         LAMBDA a : IF ~a.exc /\ a.ret /\ a.lockDownTimer # NoTimer
                    THEN interruptLockDownTimer(a)
                    ELSE a)

(* A variant of keydown that does not look at `moved' *)
keydown_WhetherMovedOrNot(g, key, rnd) ==
    Bind(KeySwitch(g, key, rnd),
         LAMBDA a : IF ~a.exc /\ a.lockDownTimer # NoTimer
                    THEN startFallLoop(interruptLockDownTimer(a))
                    ELSE a)

keydown(g, key, rnd) ==
    Bind(KeySwitch(g, key, rnd),
         LAMBDA a : IF ~a.exc /\ a.ret /\ a.lockDownTimer # NoTimer
                    THEN startFallLoop(interruptLockDownTimer(a))
                    ELSE a)

keyup(g, key) ==
    IF key = "ArrowDown" THEN HumanController_endSoftDrop(g) ELSE g

(* new HumanController() *)
NewHumanController(rnd) == NewTetris(rnd)

----------------------------------------------------------------------------
(* The variables as a program state, and a program state as the next       *)
(* values of the variables                                                 *)

G ==
    [matrix |-> matrix, pieces |-> pieces, tetrimino |-> tetrimino,
     nextTetrimino |-> nextTetrimino, genBag |-> genBag, bagIndex |-> bagIndex,
     linesCleared |-> linesCleared, level |-> level,
     heldTetrimino |-> heldTetrimino, canHold |-> canHold,
     fallTimer |-> fallTimer, lockDownTimer |-> lockDownTimer,
     isSoftDropping |-> isSoftDropping, timers |-> timers,
     ret |-> FALSE, exc |-> FALSE, kick |-> 0]

Apply(g) ==
    /\ matrix' = g.matrix
    /\ pieces' = g.pieces
    /\ tetrimino' = g.tetrimino
    /\ nextTetrimino' = g.nextTetrimino
    /\ genBag' = g.genBag
    /\ bagIndex' = g.bagIndex
    /\ linesCleared' = g.linesCleared
    /\ level' = g.level
    /\ heldTetrimino' = g.heldTetrimino
    /\ canHold' = g.canHold
    /\ fallTimer' = g.fallTimer
    /\ lockDownTimer' = g.lockDownTimer
    /\ isSoftDropping' = g.isSoftDropping
    /\ timers' = g.timers

(* The timers at a point inside a callback: the two handles and the live  *)
(* timers of the runtime, with the timers that were live when the         *)
(* callback began                                                         *)
Timers(g, before) ==
    [fallTimer |-> g.fallTimer, lockDownTimer |-> g.lockDownTimer,
     timers |-> g.timers, before |-> before]

NoMid == Timers([fallTimer |-> NoTimer, lockDownTimer |-> NoTimer, timers |-> {}], {})

(* What `last' records of a call: the operation, its argument (a string    *)
(* `arg' or a number `n'), how it ended, and whether the call before it    *)
(* was the same call with the same result; `mid' is the timers right      *)
(* after this.reset() in the "r" key's handler, right after               *)
(* this.interruptLockDownTimer() in hardDrop(), and right after the       *)
(* switch in the handler of the other keys                                *)
Note(op, arg, n, g) ==
    [op |-> op, arg |-> arg, n |-> n, ret |-> g.ret, exc |-> g.exc,
     kick |-> g.kick, mid |-> NoMid,
     twice |-> (last.op = op /\ last.arg = arg /\ last.n = n /\ last.ret = g.ret)]

Count(field) == [hist EXCEPT ![field] = hist[field] + 1]

(* A window of seven draws being filled: the shapes seen in it, how many  *)
(* draws it holds, and whether a shape has come twice in one window       *)
NoDraws == [seen |-> {}, n |-> 0, dup |-> FALSE]

Draw(win, shape) ==
    LET dup == win.dup \/ shape \in win.seen
    IN  IF win.n + 1 = Cardinality(Shapes)
        THEN [seen |-> {}, n |-> 0, dup |-> dup]
        ELSE [seen |-> win.seen \cup {shape}, n |-> win.n + 1, dup |-> dup]

(* `hist' counts what the actions have done since the initial state: the  *)
(* controller's events, the clearLine calls since the last reset, the     *)
(* resets, the lockDown calls of src/game.ts, the hold() calls that       *)
(* returned true since the last advance, the pieces drawn, and the        *)
(* windows of seven draws                                                 *)
(* counted from the last reset (winGame) and from the construction        *)
(* (winAll); the constructor has drawn the active and the next piece      *)
NewHist(g) ==
    LET win == Draw(Draw(NoDraws, g.tetrimino), g.nextTetrimino)
    IN  [events |-> 0, clears |-> 0, resets |-> 0, locks |-> 0, holds |-> 0,
         draws |-> 2, winAll |-> win, winGame |-> win]

Start(g) ==
    /\ matrix = g.matrix
    /\ pieces = g.pieces
    /\ tetrimino = g.tetrimino
    /\ nextTetrimino = g.nextTetrimino
    /\ genBag = g.genBag
    /\ bagIndex = g.bagIndex
    /\ linesCleared = g.linesCleared
    /\ level = g.level
    /\ heldTetrimino = g.heldTetrimino
    /\ canHold = g.canHold
    /\ fallTimer = g.fallTimer
    /\ lockDownTimer = g.lockDownTimer
    /\ isSoftDropping = g.isSoftDropping
    /\ timers = g.timers
    /\ last = [op |-> "new", arg |-> "", n |-> 0, ret |-> FALSE, exc |-> FALSE,
               kick |-> 0, mid |-> NoMid, twice |-> FALSE]
    /\ hist = NewHist(g)

----------------------------------------------------------------------------
(* Engine operations as actions *)

(* The shuffles a call may make: getNextTetrimino reshuffles only when    *)
(* the bag is used up, and any other call draws no random number          *)
NoSwap == [i \in 1..6 |-> i]
DrawsIn(R) == IF bagIndex >= Len(genBag) THEN R ELSE {NoSwap}

MoveDown ==
    \E g \in {moveDown(G)} :
        Apply(g) /\ last' = Note("moveDown", "", 0, g) /\ UNCHANGED hist

MoveX ==
    \E dx \in {-1, 1} :
        \E g \in {moveX(G, dx)} :
            Apply(g) /\ last' = Note("moveX", "", dx, g) /\ UNCHANGED hist

Rotate ==
    \E dir \in Rotations :
        \E g \in {rotate(G, dir)} :
            Apply(g) /\ last' = Note("rotate", dir, 0, g) /\ UNCHANGED hist

HardDrop ==
    \E g \in {hardDrop(G)} :
        Apply(g) /\ last' = Note("hardDrop", "", 0, g) /\ UNCHANGED hist

(* lockDown() of part_000: one piece drawn, the new next piece *)
LockDown(R, max) ==
    /\ heldTetrimino = Undefined
    /\ hist.draws < max
    /\ \E rnd \in DrawsIn(R) :
          \E g \in {lockDown(G, rnd)} :
              /\ Apply(g)
              /\ last' = Note("lockDown", "", 0, g)
              /\ hist' = [hist EXCEPT
                            !.draws = @ + 1,
                            !.winAll = Draw(@, g.nextTetrimino),
                            !.winGame = Draw(@, g.nextTetrimino)]

(* clearLine(y) *)
ClearLine(Ys, max) ==
    /\ hist.clears < max
    /\ \E y \in Ys :
          \E g \in {clearLine(G, y)} :
              /\ Apply(g)
              /\ last' = Note("clearLine", "", y, g)
              /\ hist' = Count("clears")

(* reset() of part_000: two pieces drawn, the active and the next one *)
Reset(R, max) ==
    /\ heldTetrimino = Undefined
    /\ hist.resets < max
    /\ \E rnd \in R :
          \E g \in {reset(G, rnd)} :
              /\ Apply(g)
              /\ last' = Note("reset", "", 0, g)
              /\ hist' = [hist EXCEPT
                            !.resets = @ + 1,
                            !.clears = 0,
                            !.draws = @ + 2,
                            !.winAll = Draw(Draw(@, g.tetrimino), g.nextTetrimino),
                            !.winGame = Draw(Draw(NoDraws, g.tetrimino),
                                             g.nextTetrimino)]

(* lockDown() of src/game.ts: nothing drawn *)
GameLockDown(max) ==
    /\ heldTetrimino # Undefined
    /\ hist.locks < max
    /\ \E g \in {game_lockDown(G)} :
          /\ Apply(g)
          /\ last' = Note("lockDown", "", 0, g)
          /\ hist' = Count("locks")

(* swapNextTetrimino(): one piece drawn, the new next piece; `holds'      *)
(* counts the hold() calls that returned true since the last piece        *)
(* advance or reset                                                       *)
SwapNextTetrimino(R, max) ==
    /\ heldTetrimino # Undefined
    /\ hist.draws < max
    /\ \E rnd \in DrawsIn(R) :
          \E g \in {swapNextTetrimino(G, rnd)} :
              /\ Apply(g)
              /\ last' = Note("swapNextTetrimino", "", 0, g)
              /\ hist' = [hist EXCEPT
                            !.holds = 0,
                            !.draws = @ + 1,
                            !.winAll = Draw(@, g.nextTetrimino),
                            !.winGame = Draw(@, g.nextTetrimino)]

(* spawnTetrimino(), which the caller of swapNextTetrimino() calls next *)
SpawnTetrimino ==
    /\ heldTetrimino # Undefined
    /\ \E g \in {spawnTetrimino(G)} :
          Apply(g) /\ last' = Note("spawnTetrimino", "", 0, g) /\ UNCHANGED hist

(* hold(): one piece drawn when no piece was held; `n' records how many   *)
(* hold() calls had returned true since the last piece advance or reset   *)
Hold(R, max) ==
    /\ heldTetrimino # Undefined
    /\ hist.draws < max
    /\ \E rnd \in DrawsIn(R) :
          \E g \in {hold(G, rnd)} :
              /\ Apply(g)
              /\ last' = Note("hold", "", hist.holds, g)
              /\ hist' = IF g.bagIndex = bagIndex /\ g.genBag = genBag
                         THEN [hist EXCEPT !.holds = @ + (IF g.ret THEN 1 ELSE 0)]
                         ELSE [hist EXCEPT
                                 !.holds = @ + 1,
                                 !.draws = @ + 1,
                                 !.winAll = Draw(@, g.nextTetrimino),
                                 !.winGame = Draw(@, g.nextTetrimino)]

(* checkLockOut() *)
CheckLockOut ==
    /\ heldTetrimino # Undefined
    /\ \E g \in {checkLockOut(G)} :
          Apply(g) /\ last' = Note("checkLockOut", "", 0, g) /\ UNCHANGED hist

(* reset() of src/game.ts *)
GameReset(R, max) ==
    /\ heldTetrimino # Undefined
    /\ hist.resets < max
    /\ \E rnd \in R :
          \E g \in {game_reset(G, rnd)} :
              /\ Apply(g)
              /\ last' = Note("reset", "", 0, g)
              /\ hist' = [hist EXCEPT
                            !.resets = @ + 1,
                            !.clears = 0,
                            !.holds = 0,
                            !.draws = @ + 2,
                            !.winAll = Draw(Draw(@, g.tetrimino), g.nextTetrimino),
                            !.winGame = Draw(Draw(NoDraws, g.tetrimino),
                                             g.nextTetrimino)]

(* moveDown(), `n' recording how many moveDown calls in a row this makes *)
MoveDownAgain ==
    /\ last.op = "moveDown" => last.n < MaxFalls
    /\ \E g \in {moveDown(G)} :
           /\ Apply(g)
           /\ last' = Note("moveDown", "",
                           IF last.op = "moveDown" THEN last.n + 1 ELSE 1, g)
           /\ UNCHANGED hist

(* rotate(dir), with what came before it recorded in `last': `before' the *)
(* active piece before the call, `prev' the call before it if that was a  *)
(* rotation, and `run' the successful rotations in one direction that the *)
(* call continues: how many (a fifth starts a new run), the piece before   *)
(* the first of them, and whether every one resolved at test point 1      *)
NoRun == [dir |-> "", n |-> 0]

RunAfter(dir, g) ==
    IF g.exc \/ ~g.ret THEN NoRun
    ELSE IF last.op = "rotate" /\ last.run.dir = dir /\ last.run.n \in 1..3
         THEN [last.run EXCEPT !.n = @ + 1, !.row1 = @ /\ g.kick = 1]
         ELSE [dir |-> dir, n |-> 1, first |-> Active(G), row1 |-> g.kick = 1]

PrevRotation ==
    IF last.op = "rotate"
    THEN [dir |-> last.arg, ret |-> last.ret, exc |-> last.exc,
          kick |-> last.kick, before |-> last.before]
    ELSE [dir |-> ""]

RotateInRun ==
    \E dir \in Rotations :
        \E g \in {rotate(G, dir)} :
            /\ Apply(g)
            /\ last' = [op |-> "rotate", arg |-> dir, n |-> 0, ret |-> g.ret,
                        exc |-> g.exc, kick |-> g.kick, mid |-> NoMid,
                        twice |-> FALSE, before |-> Active(G),
                        prev |-> PrevRotation, run |-> RunAfter(dir, g)]
            /\ UNCHANGED hist

(* getFullLines(): it assigns nothing; `arg' records the list returned *)
GetFullLines ==
    \E lines \in {getFullLines(G)} :
        /\ UNCHANGED <<matrix, pieces, tetrimino, nextTetrimino, genBag,
                       bagIndex, linesCleared, level, heldTetrimino,
                       canHold, fallTimer, lockDownTimer, isSoftDropping,
                       timers, hist>>
        /\ last' = Note("getFullLines", lines, 0, G)

(* checkCollision(centerX, centerY, minos) with the active piece's minos: *)
(* it returns or throws, and assigns nothing.  The centers asked about    *)
(* are those at the walls, at the floor and the stack, and at the top of  *)
(* the matrix                                                             *)
QueryXs == {-1, 0, 1, matrixWidth - 2, matrixWidth - 1, matrixWidth}
QueryYs == (-1)..WellDepth \cup (matrixHeight * 2 - 2)..(matrixHeight * 2 + 1)

CheckCollision ==
    \E centerX \in QueryXs, centerY \in QueryYs :
        LET r == checkCollision(G, centerX, centerY, Active(G).minos)
        IN  /\ UNCHANGED <<matrix, pieces, tetrimino, nextTetrimino, genBag,
                           bagIndex, linesCleared, level, heldTetrimino,
                           canHold, fallTimer, lockDownTimer, isSoftDropping,
                           timers, hist>>
            /\ last' = [Note("checkCollision", <<centerX, centerY>>, 0, G) EXCEPT
                            !.ret = r.ret, !.exc = r.exc]

----------------------------------------------------------------------------
(* One piece moved about a matrix by the engine's operations.  The matrix *)
(* is empty, or holds WellDepth rows filled in the columns 1..7, which    *)
(* leaves a well one column wide on the left and one two columns wide on  *)
(* the right: the stack that seven I pieces dropped upright leave behind. *)

WellsRow == [x \in Cols |-> IF x >= 1 /\ x <= matrixWidth - 3 THEN "I" ELSE Null]
WellsBoard == [y \in Rows |-> IF y < WellDepth THEN WellsRow ELSE EmptyRow]

PlayBoards == {EmptyMatrix, WellsBoard}

InitPlay ==
    \E rnd \in FirstDraws, board \in PlayBoards :
        Start([NewTetris(rnd) EXCEPT !.matrix = board])

NextPlay == MoveDown \/ MoveX \/ Rotate \/ HardDrop

SpecPlay == InitPlay /\ [][NextPlay]_vars

----------------------------------------------------------------------------
(* The callbacks of the human-play controller as actions *)

(* One firing of the fall interval: this.moveDown() *)
FallTick ==
    /\ \E t \in timers : t.kind = "interval"
    /\ \E g \in {HumanController_moveDown(G)} :
           Apply(g) /\ last' = Note("fallTick", "", 0, g) /\ UNCHANGED hist

(* The lock-down timeout fires: the runtime drops it, then this.lockDown() *)
LockDownExpiry(R) ==
    /\ hist.events < MaxEvents
    /\ \E t \in timers :
          /\ t.kind = "timeout"
          /\ \E rnd \in DrawsIn(R) :
                \E g \in {HumanController_lockDown(
                             [G EXCEPT !.timers = timers \ {t}], rnd)} :
                    /\ Apply(g)
                    /\ last' = Note("lockDownExpiry", "", 0, g)
                    /\ hist' = Count("events")

(* keydown of a key that moves, rotates or soft-drops; "x" is left out,   *)
(* its case being the one of "ArrowUp"                                    *)
MoveKeys == Keys \ {" ", "r", "x"}

KeyDown ==
    /\ hist.events < MaxEvents
    /\ \E key \in MoveKeys :
          \E g \in {keydown(G, key, NoSwap)},
             switched \in {KeySwitch(G, key, NoSwap)} :
              /\ Apply(g)
              /\ last' = [Note("keydown", key, 0, g) EXCEPT
                              !.mid = Timers(switched, timers)]
              /\ hist' = Count("events")

(* keydown of the space bar: hard drop; `mid' is the timers right after   *)
(* the first statement of hardDrop(), this.interruptLockDownTimer()       *)
KeyHardDrop(R) ==
    /\ hist.events < MaxEvents
    /\ \E rnd \in DrawsIn(R) :
          \E g \in {keydown(G, " ", rnd)},
             interrupted \in {interruptLockDownTimer(G)} :
              /\ Apply(g)
              /\ last' = [Note("keydown", " ", 0, g) EXCEPT
                              !.mid = Timers(interrupted, timers)]
              /\ hist' = Count("events")

(* keydown of "r": reset and start *)
KeyReset(R) ==
    /\ hist.events < MaxEvents
    /\ \E rnd \in R :
          \E g \in {keydown(G, "r", rnd)},
             afterReset \in {HumanController_reset(G, rnd)} :
              /\ Apply(g)
              /\ last' = [Note("keydown", "r", 0, g) EXCEPT
                              !.mid = Timers(afterReset, timers)]
              /\ hist' = Count("events")

KeyUp ==
    \E g \in {keyup(G, "ArrowDown")} :
        Apply(g) /\ last' = Note("keyup", "ArrowDown", 0, g) /\ UNCHANGED hist

(* The shuffles of the later bags and games: no swap, and the swap of the  *)
(* first two slots                                                        *)
CtlDraws == {NoSwap, [NoSwap EXCEPT ![1] = 0]}

(* The shuffle of the first game: the swap that brings T to the front    *)
(* (the bag starts T, I)                                                  *)
FirstShuffle == [NoSwap EXCEPT ![2] = 0]

(* new HumanController().start() *)
InitCtl ==
    \E g \in {HumanController_start(NewHumanController(FirstShuffle))} : Start(g)

NextCtl ==
    \/ FallTick
    \/ LockDownExpiry(CtlDraws)
    \/ KeyDown
    \/ KeyHardDrop(CtlDraws)
    \/ KeyReset(CtlDraws)
    \/ KeyUp

SpecCtl == InitCtl /\ [][NextCtl]_vars

----------------------------------------------------------------------------
(* The controller's callbacks in a game whose third piece completes the   *)
(* bottom row: the bag starts J, L, I, and the player has moved J to the   *)
(* left wall and L to the right wall and has hard-dropped both; and in a  *)
(* game of nine lines cleared whose piece in play completes the tenth     *)

DropShuffle == <<0, 1, 0, 2, 0, 0>>

DropScript ==
    <<"ArrowLeft", "ArrowLeft", "ArrowLeft", " ",
      "ArrowRight", "ArrowRight", "ArrowRight", "ArrowRight", " ">>

RECURSIVE KeysDown(_, _, _)
KeysDown(g, keys, i) ==
    IF i > Len(keys) THEN g
    ELSE Then(keydown(g, keys[i], NoSwap), LAMBDA s : KeysDown(s, keys, i + 1))

(* A game of nine lines, every bag in the order O, I, T, L, J, S, Z: for   *)
(* each of its 25 pieces the presses of "ArrowUp" and the presses of      *)
(* "ArrowRight" (of "ArrowLeft" when negative) before the space bar.  The  *)
(* 26th piece, J, turned and moved as LastStep has it, falls into the      *)
(* tenth line.                                                             *)
NineLinesScript ==
    <<
       <<0, -4>>, <<0, -1>>, <<0, -1>>, <<0, -3>>, <<0, 3>>,
       <<1, 4>>, <<1, 1>>, <<0, -4>>, <<1, 2>>, <<2, 0>>,
       <<1, 4>>, <<0, -1>>, <<0, -3>>, <<0, 1>>, <<0, 2>>,
       <<1, 4>>, <<1, -1>>, <<1, -3>>, <<2, 3>>, <<1, 0>>,
       <<0, 1>>, <<0, -2>>, <<1, -5>>, <<0, 4>>, <<3, 5>> >>

LastStep == <<3, 3>>

KeysOfStep(step) ==
    [i \in 1..step[1] |-> "ArrowUp"]
        \o [i \in 1..(IF step[2] < 0 THEN -step[2] ELSE step[2]) |->
               IF step[2] < 0 THEN "ArrowLeft" ELSE "ArrowRight"]

(* The steps lo..hi played one after the other, by halves *)
RECURSIVE StepsDown(_, _, _, _)
StepsDown(g, steps, lo, hi) ==
    IF lo = hi THEN KeysDown(g, KeysOfStep(steps[lo]) \o <<" ">>, 1)
    ELSE Then(StepsDown(g, steps, lo, (lo + hi) \div 2),
              LAMBDA s : StepsDown(s, steps, (lo + hi) \div 2 + 1, hi))

NineLines ==
    Then(StepsDown(HumanController_start(NewHumanController(NoSwap)),
                   NineLinesScript, 1, Len(NineLinesScript)),
         LAMBDA s : KeysDown(s, KeysOfStep(LastStep), 1))

InitDrop ==
    \/ \E g \in {KeysDown(HumanController_start(NewHumanController(DropShuffle)),
                          DropScript, 1)} : Start(g)
    \/ \E g \in {NineLines} : Start(g)

NextDrop ==
    \/ FallTick
    \/ LockDownExpiry(CtlDraws)
    \/ KeyDown
    \/ KeyHardDrop(CtlDraws)
    \/ KeyUp

SpecDrop == InitDrop /\ [][NextDrop]_vars

(* The six callbacks in the game of nine lines, every bag in the one order *)
InitTimers == \E g \in {NineLines} : Start(g)

NextTimers ==
    \/ FallTick
    \/ LockDownExpiry({NoSwap})
    \/ KeyDown
    \/ KeyHardDrop({NoSwap})
    \/ KeyReset({NoSwap})
    \/ KeyUp

SpecTimers == InitTimers /\ [][NextTimers]_vars

----------------------------------------------------------------------------
(* checkCollision asked about the active piece anywhere in and around the *)
(* matrix, the piece turned any way                                       *)

NextQuery == CheckCollision \/ Rotate

SpecQuery == InitPlay /\ [][NextQuery]_vars

----------------------------------------------------------------------------
(* Lines cleared and games reset, as far as MaxLines lines: the level     *)

LevelRows == {0, matrixHeight - 1}

InitLevel == \E rnd \in CtlDraws : Start(NewTetris(rnd))

NextLevel == ClearLine(LevelRows, MaxLines) \/ Reset(CtlDraws, MaxResets)

SpecLevel == InitLevel /\ [][NextLevel]_vars

----------------------------------------------------------------------------
(* Pieces locked where they spawn and games reset: the bag                *)

InitBag == \E rnd \in FirstDraws : Start(NewTetris(rnd))

NextBag == LockDown(FirstDraws, MaxDraws) \/ Reset(FirstDraws, MaxResets)

SpecBag == InitBag /\ [][NextBag]_vars

----------------------------------------------------------------------------
(* Lines cleared in a stack.  The stack is built by the engine itself: O  *)
(* dropped at the left wall, I dropped upright at the right wall, T       *)
(* dropped where it spawns, and in StackedHigh L locked where it spawns,  *)
(* in the rows matrixHeight and above.                                    *)

RECURSIVE Slide(_, _)
Slide(g, dx) ==
    IF dx = 0 THEN g
    ELSE IF dx < 0 THEN Then(moveX(g, -1), LAMBDA s : Slide(s, dx + 1))
    ELSE Then(moveX(g, 1), LAMBDA s : Slide(s, dx - 1))

Place(g, dir, dx) ==
    LET turned == IF dir = "" THEN g ELSE rotate(g, dir)
        slid == Then(turned, LAMBDA s : Slide(s, dx))
        dropped == Then(slid, hardDrop)
    IN  Then(dropped, LAMBDA s : lockDown(s, NoSwap))

Stacked ==
    Place(Place(Place(NewTetris(NoSwap), "", -matrixWidth), "CW", matrixWidth),
          "", 0)

StackedHigh == lockDown(Stacked, NoSwap)

InitClear == \E g \in {Stacked, StackedHigh} : Start(g)

NextClear == ClearLine(0..(matrixHeight - 1), MaxClears)

SpecClear == InitClear /\ [][NextClear]_vars

----------------------------------------------------------------------------
(* Full lines.  The boards are the ones a game goes through in which the   *)
(* first bag comes out I, J, L, S, O, T, Z and is dropped so as to fill    *)
(* the two bottom rows, and the second bag starts T, L, I, the three       *)
(* locked in the row they spawn in, which fills the row matrixHeight.      *)

FullRowsFirst == <<0, 2, 2, 0, 2, 6>>
FullRowsSecond == <<0, 0, 1, 1, 3, 1>>

(* One piece played: the turn ("" for none), the columns moved, and        *)
(* whether the piece is hard-dropped before it is locked                   *)
FullRowsScript ==
    << <<"", 0, TRUE>>, <<"", -3, TRUE>>, <<"", 4, TRUE>>, <<"CW", -4, TRUE>>,
       <<"", -2, TRUE>>, <<"", 1, TRUE>>, <<"", 3, TRUE>>,
       <<"", -3, FALSE>>, <<"", 4, FALSE>>, <<"", 0, FALSE>> >>

(* The piece in play turned, moved and dropped, not yet locked *)
MoveStep(g, step) ==
    LET turned == IF step[1] = "" THEN g ELSE rotate(g, step[1])
        slid == Then(turned, LAMBDA s : Slide(s, step[2]))
    IN  IF step[3] THEN Then(slid, hardDrop) ELSE slid

(* The piece locked and the next one brought into play: lockDown() in     *)
(* part_000; in src/game.ts lockDown(), swapNextTetrimino() and           *)
(* spawnTetrimino(), the order the comments of checkLockOut and           *)
(* checkBlockOut lay down                                                 *)
LockAndAdvance(g, rnd) ==
    IF g.heldTetrimino = Undefined THEN lockDown(g, rnd)
    ELSE Then(game_lockDown(g),
              LAMBDA s : spawnTetrimino(swapNextTetrimino(s, rnd)))

PlaceStep(g, step, rnd) ==
    Then(MoveStep(g, step), LAMBDA s : LockAndAdvance(s, rnd))

(* The scripted game after k pieces, `new' being the game as constructed *)
RECURSIVE FullRowsAfter(_, _)
FullRowsAfter(new, k) ==
    IF k = 0 THEN new
    ELSE Then(FullRowsAfter(new, k - 1),
              LAMBDA s : PlaceStep(s, FullRowsScript[k], FullRowsSecond))

(* The scripted game with piece k turned, moved and dropped, not locked *)
FullRowsDuring(new, k) ==
    Then(FullRowsAfter(new, k - 1), LAMBDA s : MoveStep(s, FullRowsScript[k]))

InitLines ==
    \E k \in 0..Len(FullRowsScript) :
        Start(FullRowsAfter(NewTetris(FullRowsFirst), k))

NextLines == GetFullLines \/ ClearLine(0..(matrixHeight - 1), MaxClears)

SpecLines == InitLines /\ [][NextLines]_vars

----------------------------------------------------------------------------
(* One piece moved and turned, the rotations remembered *)

NextTurn == MoveDown \/ MoveX \/ HardDrop \/ RotateInRun

SpecTurn == InitPlay /\ [][NextTurn]_vars

----------------------------------------------------------------------------
(* One piece falling from where it spawns, row by row *)

NextFall == MoveDownAgain

SpecFall == InitPlay /\ [][NextFall]_vars

----------------------------------------------------------------------------
(* Pieces turned, dropped and locked, from three boards of the scripted   *)
(* game: the empty one, the one whose next lockDown reshuffles the bag,   *)
(* and the last, where the pieces spawn on the blocks of row matrixHeight. *)
(* The engine of src/game.ts starts with a piece of the scripted game in   *)
(* the place it is locked in, or from the last board, and its pieces are   *)
(* turned by the script only: a piece that lockDown() leaves in play can   *)
(* be turned through its own blocks to a great many places.                *)

LockStarts == {0, Len(InitialBag) - 2, Len(FullRowsScript)}

InitLock ==
    \/ \E k \in LockStarts : Start(FullRowsAfter(NewTetris(FullRowsFirst), k))
    \/ \E k \in 1..Len(FullRowsScript) :
           Start(FullRowsDuring(game_NewTetris(FullRowsFirst), k))
    \/ Start(FullRowsAfter(game_NewTetris(FullRowsFirst), Len(FullRowsScript)))

(* The reshuffles: no swap, and the swap that brings the last piece of    *)
(* the bag to the front, so that the piece just promoted is drawn again   *)
LockDraws == {NoSwap, [NoSwap EXCEPT ![Len(InitialBag) - 1] = 0]}

NextLock ==
    \/ heldTetrimino = Undefined /\ Rotate
    \/ HardDrop
    \/ LockDown(LockDraws, 2 + MaxLocks)
    \/ GameLockDown(MaxLocks)
    \/ SwapNextTetrimino(LockDraws, 2 + MaxLocks)
    \/ SpawnTetrimino

SpecLock == InitLock /\ [][NextLock]_vars

----------------------------------------------------------------------------
(* Games reset, in either engine: from the three boards of the scripted   *)
(* game above, between two pieces and with a piece dropped and not        *)
(* locked, as they are and after linesPerLevel lines cleared, which makes *)
(* the level 2; in src/game.ts with or without a piece held               *)

(* g after n calls of clearLine(0) *)
Cleared(g, n) == Then(g, LAMBDA s : clearLinesOf(s, [i \in 1..n |-> 0], 1))

InitReset ==
    \E new \in {NewTetris(FullRowsFirst), game_NewTetris(FullRowsFirst)} :
        \E n \in {0, linesPerLevel} :
            \/ \E k \in LockStarts :
                   Start(Cleared(FullRowsAfter(new, k), n))
            \/ \E k \in LockStarts \ {0} :
                   Start(Cleared(FullRowsDuring(new, k), n))

NextReset ==
    \/ ClearLine(LevelRows, MaxClears)
    \/ Hold(FirstDraws, MaxDraws)
    \/ Reset(FirstDraws, MaxResets)
    \/ GameReset(FirstDraws, MaxResets)

SpecReset == InitReset /\ [][NextReset]_vars

----------------------------------------------------------------------------
(* Full lines cleared by the controller.  Beside the game of SpecLines, a  *)
(* game whose bag comes out O, I, T, L, J, S, Z and whose ninth piece, I   *)
(* upright in the last column, fills the rows 0 and 2 and not the row 1.   *)

GapRowsScript ==
    << <<"", -4, TRUE>>, <<"", -1, TRUE>>, <<"CW", -2, TRUE>>,
       <<"CCW", 0, TRUE>>, <<"", 3, TRUE>>, <<"CW", 3, TRUE>>,
       <<"CW", 1, TRUE>>, <<"", -4, TRUE>>, <<"CW", 4, TRUE>> >>

RECURSIVE GapRowsAfter(_, _)
GapRowsAfter(new, k) ==
    IF k = 0 THEN new
    ELSE Then(GapRowsAfter(new, k - 1),
              LAMBDA s : PlaceStep(s, GapRowsScript[k], NoSwap))

GapRowsDuring(new, k) ==
    Then(GapRowsAfter(new, k - 1), LAMBDA s : MoveStep(s, GapRowsScript[k]))

(* Controller.clearFullLines(); `arg' is the list getFullLines() returned *)
ClearFullLines(max) ==
    /\ hist.clears < max
    /\ \E g \in {Controller_clearFullLines(G)}, lines \in {getFullLines(G)} :
          /\ Apply(g)
          /\ last' = Note("clearFullLines", lines, Len(lines), g)
          /\ hist' = Count("clears")

InitSweep ==
    \/ \E k \in 0..Len(FullRowsScript) :
           Start(FullRowsAfter(NewTetris(FullRowsFirst), k))
    \/ \E k \in 1..Len(GapRowsScript) :
           Start(GapRowsDuring(NewTetris(NoSwap), k))

NextSweep ==
    \/ HardDrop
    \/ LockDown(LockDraws, 2 + MaxLocks)
    \/ ClearFullLines(MaxClears)

SpecSweep == InitSweep /\ [][NextSweep]_vars

----------------------------------------------------------------------------
(* Every operation of the engine of part_000, the queries included, from   *)
(* the boards of the scripted game: at level 1 with the piece where it     *)
(* spawned, and at level 2 with the piece where the script has dropped     *)
(* it.  The calls that assign to a field are counted.                      *)

FrameCall(op, arg, n, g) ==
    /\ hist.events < MaxCalls
    /\ Apply(g)
    /\ last' = Note(op, arg, n, g)
    /\ hist' = Count("events")

FrameMoveX ==
    \E dx \in {-1, 1} : \E g \in {moveX(G, dx)} : FrameCall("moveX", "", dx, g)

FrameMoveDown == \E g \in {moveDown(G)} : FrameCall("moveDown", "", 0, g)

FrameRotate ==
    \E dir \in Rotations : \E g \in {rotate(G, dir)} : FrameCall("rotate", dir, 0, g)

FrameHardDrop == \E g \in {hardDrop(G)} : FrameCall("hardDrop", "", 0, g)

FrameSpawnTetrimino ==
    \E g \in {spawnTetrimino(G)} : FrameCall("spawnTetrimino", "", 0, g)

FrameLockDown ==
    \E rnd \in DrawsIn(LockDraws) :
        \E g \in {lockDown(G, rnd)} : FrameCall("lockDown", "", 0, g)

FrameClearLine ==
    \E y \in LevelRows : \E g \in {clearLine(G, y)} : FrameCall("clearLine", "", y, g)

FrameReset ==
    \E rnd \in {NoSwap} : \E g \in {reset(G, rnd)} : FrameCall("reset", "", 0, g)

(* checkCollision asked about the active piece where it is and one cell    *)
(* to either side, above and below                                         *)
FrameCheckCollision ==
    \E d \in {<<0, 0>>, <<-1, 0>>, <<1, 0>>, <<0, -1>>, <<0, 1>>} :
        LET t == Active(G)
            at == <<t.center[1] + d[1], t.center[2] + d[2]>>
            r == checkCollision(G, at[1], at[2], t.minos)
        IN  /\ UNCHANGED <<matrix, pieces, tetrimino, nextTetrimino, genBag,
                           bagIndex, linesCleared, level, heldTetrimino,
                           canHold, fallTimer, lockDownTimer, isSoftDropping,
                           timers, hist>>
            /\ last' = [Note("checkCollision", at, 0, G) EXCEPT
                            !.ret = r.ret, !.exc = r.exc]

(* getGhostTetriminoY(): it returns a row or throws, and assigns nothing *)
GetGhostTetriminoY ==
    \E ghost \in {getGhostTetriminoY(G)} :
        /\ UNCHANGED <<matrix, pieces, tetrimino, nextTetrimino, genBag,
                       bagIndex, linesCleared, level, heldTetrimino,
                       canHold, fallTimer, lockDownTimer, isSoftDropping,
                       timers, hist>>
        /\ last' = [Note("getGhostTetriminoY", "", ghost.y, G) EXCEPT
                        !.exc = ghost.exc]

InitFrame ==
    \/ \E k \in LockStarts : Start(FullRowsAfter(NewTetris(FullRowsFirst), k))
    \/ \E k \in LockStarts \ {0} :
           Start(Cleared(FullRowsDuring(NewTetris(FullRowsFirst), k),
                         linesPerLevel))

NextFrame ==
    \/ FrameMoveX
    \/ FrameMoveDown
    \/ FrameRotate
    \/ FrameHardDrop
    \/ FrameSpawnTetrimino
    \/ FrameLockDown
    \/ FrameClearLine
    \/ FrameReset
    \/ FrameCheckCollision
    \/ GetFullLines
    \/ GetGhostTetriminoY

SpecFrame == InitFrame /\ [][NextFrame]_vars

----------------------------------------------------------------------------
(* The engine of src/game.ts with pieces held: locked, advanced, spawned  *)
(* and held in any order, and the game reset, from the three boards of    *)
(* the scripted game above                                                *)

InitHold ==
    \E k \in LockStarts : Start(FullRowsAfter(game_NewTetris(FullRowsFirst), k))

NextHold ==
    \/ GameLockDown(MaxLocks)
    \/ SwapNextTetrimino(LockDraws, 2 + MaxAdvances)
    \/ SpawnTetrimino
    \/ Hold(LockDraws, 2 + MaxAdvances)
    \/ GameReset(LockDraws, MaxResets)

SpecHold == InitHold /\ [][NextHold]_vars

----------------------------------------------------------------------------
(* The engine of src/game.ts asked whether the game is locked out, with   *)
(* one piece turned and lowered from where it spawns, across the skyline  *)

InitOut == \E rnd \in FirstDraws : Start(game_NewTetris(rnd))

NextOut == MoveDown \/ Rotate \/ CheckLockOut

SpecOut == InitOut /\ [][NextOut]_vars

----------------------------------------------------------------------------
(* The controller's callbacks in a game whose first eleven pieces, the     *)
(* bags in the order O, I, T, L, J, S, Z, were hard-dropped where they     *)
(* spawned: the stack in the middle columns reaches up to the rows the     *)
(* pieces spawn in                                                         *)

StraightDrops == [k \in 1..11 |-> <<0, 0>>]

DroppedStraight ==
    StepsDown(HumanController_start(NewHumanController(NoSwap)),
              StraightDrops, 1, Len(StraightDrops))

InitTop == \E g \in {DroppedStraight} : Start(g)

NextTop ==
    \/ FallTick
    \/ LockDownExpiry({NoSwap})
    \/ KeyDown
    \/ KeyHardDrop({NoSwap})
    \/ KeyUp

SpecTop == InitTop /\ [][NextTop]_vars

----------------------------------------------------------------------------
(* The timers alone, no key pressed any more: from a game just started,    *)
(* from the game of eleven straight hard drops, and from that game after   *)
(* a fall tick has landed the piece, "ArrowDown" was pressed and released  *)
(* (the countdown and the fall interval are both live).  The runtime       *)
(* fires every timer that stays live, hence the weak fairness of the two   *)
(* callbacks.  The callbacks are not counted: the game has no end.         *)

LandedAndReleased ==
    keyup(keydown(HumanController_moveDown(DroppedStraight), "ArrowDown", NoSwap),
          "ArrowDown")

InitLive ==
    \E g \in {HumanController_start(NewHumanController(FirstShuffle)),
               DroppedStraight, LandedAndReleased} : Start(g)

(* The lock-down timeout fires *)
TimeoutFires ==
    \E t \in timers :
        /\ t.kind = "timeout"
        /\ \E rnd \in DrawsIn(CtlDraws) :
              \E g \in {HumanController_lockDown(
                           [G EXCEPT !.timers = timers \ {t}], rnd)} :
                  /\ Apply(g)
                  /\ last' = Note("lockDownExpiry", "", 0, g)
                  /\ UNCHANGED hist

NextLive == FallTick \/ TimeoutFires

SpecLive ==
    InitLive /\ [][NextLive]_vars /\ WF_vars(FallTick) /\ WF_vars(TimeoutFires)

----------------------------------------------------------------------------
(* The engine alone in a game whose pieces are turned and moved upwards    *)
(* along the blocks locked before them and locked where they stand: the    *)
(* bag comes out I, O, T, S, Z, L, J, twice; "l" and "r" are moveX(-1)     *)
(* and moveX(1), "c" and "z" rotate(CW) and rotate(CCW), "d" moveDown(),   *)
(* and each piece is locked by lockDown() after its calls.  The thirteenth *)
(* piece, L, is taken by ClimbLast to (2, 39), facing South.               *)

ClimbDraws == <<0, 2, 3, 4, 3, 4>>

ClimbScript ==
    <<
       <<"l", "l", "l", "z">>,
       <<"l", "d", "d">>,
       <<"l", "c", "c", "c", "c", "l", "c", "c", "r", "r", "r", "r", "r",
         "r", "r", "c", "d">>,
       <<"z", "z", "r", "z", "z", "r", "c", "z", "r", "r", "c", "c", "l",
         "l", "l", "l", "l", "c", "c">>,
       <<"l", "c", "c", "z", "z", "l", "c", "c", "r", "r", "r", "r", "z",
         "r", "c", "r", "z", "d", "c", "l", "l", "c", "c", "l", "l", "z",
         "z", "r", "r", "r", "r", "c", "c">>,
       <<"z", "z", "r", "z", "z", "c", "d", "r", "c", "r", "r", "z", "l",
         "l", "l", "c", "l", "l", "l", "c", "c", "c", "d", "z", "r", "r",
         "r", "z", "z", "z", "z", "r", "r", "z", "z", "c">>,
       <<"r", "r", "d", "d">>,
       <<"l", "c", "d", "c">>,
       <<"r", "r", "r", "r">>,
       <<"l", "c", "c", "c", "c", "l", "c", "c", "r", "r", "c", "c">>,
       <<"r", "z", "z", "z", "z", "c", "c", "d", "l", "l", "l", "l", "c",
         "c", "r", "c", "c", "c", "c", "r", "c", "z", "r", "r", "r", "z",
         "z", "c", "c", "l", "l">>,
       <<"l", "c", "c", "z", "z", "l", "c", "c", "c", "c", "z", "d", "z",
         "c", "c", "r", "r", "z", "z", "c", "c", "l", "l", "c", "c", "c",
         "c">> >>

ClimbLast ==
    <<"l", "z", "l", "l", "z", "l", "c", "c", "z", "d", "z", "c", "c",
         "c", "d", "z", "r", "r", "r", "z", "z", "z", "z", "l", "z", "z",
         "r", "r", "z", "z", "l", "l", "l", "l", "z", "z">>

ClimbOp(g, op) ==
    CASE op = "l" -> moveX(g, -1)
      [] op = "r" -> moveX(g, 1)
      [] op = "c" -> rotate(g, "CW")
      [] op = "z" -> rotate(g, "CCW")
      [] op = "d" -> moveDown(g)

(* The state a call returned, with its fields computed *)
Settled(g) == CHOOSE s \in {g} : s = s

(* The calls lo..hi of ops one after the other, by halves *)
RECURSIVE OpsDone(_, _, _, _)
OpsDone(g, ops, lo, hi) ==
    IF lo = hi THEN Settled(ClimbOp(g, ops[lo]))
    ELSE Bind((lo + hi) \div 2,
              LAMBDA mid : Then(OpsDone(g, ops, lo, mid),
                                LAMBDA s : OpsDone(s, ops, mid + 1, hi)))

(* The pieces lo..hi of the script played and locked, by halves *)
RECURSIVE Climbed(_, _, _)
Climbed(g, lo, hi) ==
    IF lo = hi
    THEN Bind(ClimbScript[lo],
              LAMBDA ops : Then(OpsDone(g, ops, 1, Len(ops)),
                                LAMBDA s : Settled(lockDown(s, NoSwap))))
    ELSE Bind((lo + hi) \div 2,
              LAMBDA mid : Then(Climbed(g, lo, mid),
                                LAMBDA s : Climbed(s, mid + 1, hi)))

ClimbedHigh(new) ==
    Then(Climbed(new, 1, Len(ClimbScript)),
         LAMBDA s : OpsDone(s, ClimbLast, 1, Len(ClimbLast)))

InitClimb == \E g \in {ClimbedHigh(NewTetris(ClimbDraws))} : Start(g)

SpecClimb == InitClimb /\ [][NextPlay]_vars

----------------------------------------------------------------------------
(* Properties of the rotation (SpecPlay) *)

(* C3: when rotate(dir) returns false, the active piece (facing, the four  *)
(* offsets in their order, center) and every matrix cell are what they     *)
(* were before the call.                                                   *)
C3_FailedRotateChangesNothing ==
    [][(last'.op = "rotate" /\ ~last'.exc /\ ~last'.ret)
          => (pieces' = pieces /\ tetrimino' = tetrimino /\ matrix' = matrix)]_vars

(* A rotation has failed, with the piece turned away from North *)
C3_Witness ==
    /\ last.op = "rotate" /\ ~last.exc /\ ~last.ret
    /\ pieces[tetrimino].facing # North

(* The rule of C4, stated from the tables: the offsets a quarter turn      *)
(* gives, the number of test points of a shape, and whether a piece at     *)
(* (cx, cy) has a cell outside the side walls, under the floor or on an    *)
(* occupied cell                                                           *)
Turned(minos, dir) ==
    [i \in DOMAIN minos |->
        IF dir = "CW" THEN <<minos[i][2], -minos[i][1]>>
                      ELSE <<-minos[i][2], minos[i][1]>>]

TestPoints(shape) == IF shape = "O" THEN 1 ELSE 5

Blocked(m, cx, cy, minos) ==
    \E i \in DOMAIN minos :
        LET x == cx + minos[i][1]
            y == cy + minos[i][2]
        IN  x < 0 \/ x >= matrixWidth \/ y < 0 \/ (y \in Rows /\ m[y][x] # Null)

RotateRule(dir) ==
    LET p == tetrimino
        t == pieces[p]
        table == IF p = "O" THEN OffsetsO ELSE IF p = "I" THEN OffsetsI
                 ELSE OffsetsTLJSZ
        newFacing == IF dir = "CW" THEN (t.facing + 1) % 4 ELSE (t.facing + 3) % 4
        newMinos == Turned(t.minos, dir)
        at(row) == <<t.center[1] + table[row][t.facing + 1][1]
                                 - table[row][newFacing + 1][1],
                     t.center[2] + table[row][t.facing + 1][2]
                                 - table[row][newFacing + 1][2]>>
        free == {row \in 1..TestPoints(p) :
                    ~Blocked(matrix, at(row)[1], at(row)[2], newMinos)}
    IN  IF free = {}
        THEN ~last'.ret
        ELSE LET first == CHOOSE row \in free : \A other \in free : row <= other
             IN  /\ last'.ret
                 /\ last'.kick = first
                 /\ tetrimino' = p
                 /\ pieces'[p] = [facing |-> newFacing, minos |-> newMinos,
                                  center |-> at(first)]

(* C4: rotate(dir) turns the facing and the offsets, tries the shape's     *)
(* test points in table order with kick = table[row][old] - table[row][new]*)
(* and succeeds at the first one that does not collide, moving the center  *)
(* by its kick; it fails if and only if every test point collides.         *)
C4_RotateFollowsKickTable ==
    [][(last'.op = "rotate" /\ ~last'.exc) => RotateRule(last'.arg)]_vars

(* A rotation resolved at the third test point: the first two collided *)
C4_Witness ==
    last.op = "rotate" /\ ~last.exc /\ last.ret /\ last.kick = 3

(* C6: once moveDown() has returned true, an immediately following         *)
(* moveDown() returns true again and leaves the piece where it is.         *)
C6_LandedMoveDownIsIdempotent ==
    [][(last.op = "moveDown" /\ ~last.exc /\ last.ret /\ last'.op = "moveDown")
          => (~last'.exc /\ last'.ret /\ pieces' = pieces /\ matrix' = matrix)]_vars

(* moveDown() has returned true twice in a row *)
C6_Witness ==
    last.op = "moveDown" /\ ~last.exc /\ last.ret /\ last.twice

----------------------------------------------------------------------------
(* Properties of the controller's timers (SpecCtl) *)

(* C1: at the end of every callback of the human-play controller the fall  *)
(* timer and the lock-down timer are never both armed.                     *)
C1_TimersNeverBothArmed ==
    ~(fallTimer # NoTimer /\ lockDownTimer # NoTimer)

(* The soft-drop key was released and both timers are armed *)
C1_Witness ==
    /\ last.op = "keyup"
    /\ fallTimer # NoTimer /\ lockDownTimer # NoTimer
    /\ \E t \in timers : t.id = fallTimer /\ t.kind = "interval"
    /\ \E t \in timers : t.id = lockDownTimer /\ t.kind = "timeout"

(* C2: HumanController.reset() leaves both timers unarmed, whatever was    *)
(* armed when it was called: right after it, in the "r" key's handler,     *)
(* both handles are null and the runtime holds no live timer, so no tick   *)
(* or expiry armed earlier can fire.                                       *)
C2_ResetDisarmsBothTimers ==
    (last.op = "keydown" /\ last.arg = "r" /\ ~last.exc)
        => /\ last.mid.fallTimer = NoTimer
           /\ last.mid.lockDownTimer = NoTimer
           /\ last.mid.timers = {}

(* "r" was pressed while a lock-down timeout was live *)
C2_Witness ==
    /\ last.op = "keydown" /\ last.arg = "r" /\ ~last.exc
    /\ \E t \in last.mid.before : t.kind = "timeout"

----------------------------------------------------------------------------
(* Properties of checkCollision (SpecQuery) *)

(* C5: checkCollision(cx, cy, offsets) returns true if and only if some    *)
(* cell is left of column 0, right of the last column, below row 0 or on   *)
(* an occupied matrix cell; however high the piece is, rows at and above   *)
(* 2 * matrixHeight included, the call returns, and returns false when no  *)
(* cell is so.                                                             *)
C5_CollisionIsWallFloorOrBlock ==
    last.op = "checkCollision"
        => /\ ~last.exc
           /\ last.ret <=> Blocked(matrix, last.arg[1], last.arg[2],
                                   pieces[tetrimino].minos)

(* checkCollision was asked about a piece inside the side walls with a     *)
(* cell at or above row 2 * matrixHeight                                   *)
C5_Witness ==
    /\ last.op = "checkCollision"
    /\ \A i \in 1..4 :
          LET x == last.arg[1] + pieces[tetrimino].minos[i][1]
          IN  x >= 0 /\ x < matrixWidth
    /\ \E i \in 1..4 :
          last.arg[2] + pieces[tetrimino].minos[i][2] >= matrixHeight * 2

----------------------------------------------------------------------------
(* Properties of the level (SpecLevel) *)

(* C7, as the code has it: between two resets the level never decreases;   *)
(* it never exceeds maxLevel; a clearLine call raises it by one exactly    *)
(* when it brings the lines cleared since the construction or the last     *)
(* reset to a multiple of linesPerLevel and maxLevel is not yet reached,   *)
(* and leaves it otherwise; reset() sets it back to 1.                     *)
C7_LevelStepsWithinAGame ==
    [][/\ level' <= maxLevel
       /\ last'.op # "reset" => level' >= level
       /\ last'.op = "reset" => level' = 1
       /\ last'.op = "clearLine"
             => level' = IF hist'.clears % linesPerLevel = 0 /\ level < maxLevel
                         THEN level + 1 ELSE level]_vars

(* C7, as the claim has it: over any sequence of engine operations the     *)
(* level never decreases and never exceeds maxLevel, and a clearLine call  *)
(* raises it by one exactly when it brings the number of cleared lines to  *)
(* a multiple of linesPerLevel, until maxLevel is reached.                 *)
C7_LevelNeverDecreases ==
    [][/\ level' >= level
       /\ level' <= maxLevel
       /\ last'.op = "clearLine"
             => level' = IF linesCleared' % linesPerLevel = 0 /\ level < maxLevel
                         THEN level + 1 ELSE level]_vars

(* In the game after a reset the tenth line has just been cleared *)
C7_Witness ==
    /\ last.op = "clearLine"
    /\ hist.resets > 0
    /\ hist.clears = linesPerLevel
    /\ level = 2

(* C8: in every reachable state level = min(maxLevel, 1 + floor(           *)
(* linesCleared / linesPerLevel)), and linesCleared is the number of       *)
(* clearLine calls since the construction or the last reset.               *)
C8_LevelFromLinesCleared ==
    /\ linesCleared = hist.clears
    /\ level = Min(maxLevel, 1 + (hist.clears \div linesPerLevel))

(* Enough lines are cleared for the cap to matter, in a game after a reset *)
C8_Witness ==
    /\ hist.resets > 0
    /\ hist.clears >= maxLevel * linesPerLevel
    /\ level = maxLevel

----------------------------------------------------------------------------
(* Properties of the bag (SpecBag) *)

(* C9, as the code has it: counting the pieces drawn since the             *)
(* construction or the last reset(), every window of seven draws (draws    *)
(* 1-7, 8-14, ...) holds each of the seven shapes exactly once: no shape   *)
(* comes twice in one window.                                              *)
C9_EachShapeOncePerBagOfAGame == ~hist.winGame.dup

(* C9, as the claim has it: counting the pieces drawn since the            *)
(* construction, every window of seven draws holds each shape exactly      *)
(* once, over any sequence of operations that draw pieces.                 *)
C9_EachShapeOncePerSevenDraws == ~hist.winAll.dup

(* After a reset that came in the middle of a bag, two windows of the new  *)
(* game are complete                                                       *)
C9_Witness ==
    /\ hist.resets > 0
    /\ hist.winAll.dup
    /\ hist.winGame.n = 0
    /\ bagIndex = Len(genBag)
    /\ last.op = "lockDown"
    /\ hist.draws >= 2 * Len(genBag) + 2

----------------------------------------------------------------------------
(* Properties of clearLine (SpecClear) *)

(* C10: after clearLine(y), 0 <= y < matrixHeight, every row r with        *)
(* y <= r < matrixHeight - 1 holds what row r + 1 held before, and if no   *)
(* cell in the rows matrixHeight and above was occupied, the row           *)
(* matrixHeight - 1 is empty.                                              *)
C10_ClearLineShiftsRowsDown ==
    [][last'.op = "clearLine"
          => /\ \A r \in last'.n..(matrixHeight - 2) : matrix'[r] = matrix[r + 1]
             /\ (\A r \in Rows : r >= matrixHeight => matrix[r] = EmptyRow)
                   => matrix'[matrixHeight - 1] = EmptyRow]_vars

(* The bottom line was cleared twice in the stack with nothing high up:    *)
(* the row that was third from the bottom is now the bottom row            *)
C10_Witness ==
    /\ last.op = "clearLine" /\ last.n = 0 /\ last.twice
    /\ matrix[0] # EmptyRow
    /\ matrix[0] # matrix[2]
    /\ \A r \in Rows : r >= matrixHeight => matrix[r] = EmptyRow

----------------------------------------------------------------------------
(* Properties of getFullLines (SpecLines) *)

(* C11: getFullLines() returns exactly the rows y of 0..matrixHeight-1     *)
(* whose every cell is occupied, each once and in descending order, never  *)
(* a row at or above matrixHeight; on an empty matrix it returns the empty *)
(* list, and when exactly one such row is full it returns that row alone.  *)
C11_FullLinesArePlayableFullRows ==
    last.op = "getFullLines"
        => LET lines == last.arg
               full == {y \in 0..(matrixHeight - 1) : RowFull(matrix, y)}
           IN  /\ {lines[i] : i \in DOMAIN lines} = full
               /\ \A i, j \in DOMAIN lines : i < j => lines[i] > lines[j]
               /\ matrix = EmptyMatrix => lines = <<>>
               /\ \A y \in full : full = {y} => lines = <<y>>

(* getFullLines() has returned two rows while a row at or above            *)
(* matrixHeight is full                                                    *)
C11_Witness ==
    /\ last.op = "getFullLines"
    /\ Len(last.arg) >= 2
    /\ \E y \in Rows : y >= matrixHeight /\ RowFull(matrix, y)

----------------------------------------------------------------------------
(* Properties of rotations in a row (SpecTurn) *)

(* C12: when four rotate(dir) calls in a row, all in one direction, have   *)
(* all returned true, the facing and the four offsets are what they were   *)
(* before the first; if each of the four resolved at test point 1, so is   *)
(* the center.                                                             *)
C12_FourRotationsRestore ==
    (last.op = "rotate" /\ ~last.exc /\ last.run.n = 4)
        => LET t == pieces[tetrimino]
               first == last.run.first
           IN  /\ t.facing = first.facing
               /\ t.minos = first.minos
               /\ last.run.row1 => t.center = first.center

(* Four rotations in one direction have succeeded, one of them by a kick,  *)
(* and have left the piece somewhere else                                  *)
C12_Witness ==
    /\ last.op = "rotate" /\ ~last.exc /\ last.run.n = 4
    /\ ~last.run.row1
    /\ pieces[tetrimino].center # last.run.first.center

(* The 4 x 4 box the I piece turns in, for a North-facing I centered at    *)
(* (cx, cy), lies inside the matrix and holds no block                     *)
Unobstructed(m, cx, cy) ==
    \A x \in (cx - 1)..(cx + 2), y \in (cy - 2)..(cy + 1) :
        x \in Cols /\ y \in Rows /\ m[y][x] = Null

(* C13: for an I piece facing North in an unobstructed position,           *)
(* rotate(CW) and then rotate(CCW) both return true, both at test point 1, *)
(* and leave the facing, the offsets and the center what they were.        *)
C13_TurnAndBackRestoresI ==
    (/\ last.op = "rotate" /\ last.arg = "CCW" /\ last.prev.dir = "CW"
     /\ tetrimino = "I"
     /\ last.prev.before.facing = North
     /\ Unobstructed(matrix, last.prev.before.center[1],
                     last.prev.before.center[2]))
        => /\ ~last.prev.exc /\ last.prev.ret /\ last.prev.kick = 1
           /\ ~last.exc /\ last.ret /\ last.kick = 1
           /\ pieces[tetrimino] = last.prev.before

(* An I piece moved down from where it spawned and off the middle was      *)
(* turned CW and back CCW in an unobstructed position                      *)
C13_Witness ==
    /\ last.op = "rotate" /\ last.arg = "CCW" /\ last.prev.dir = "CW"
    /\ tetrimino = "I"
    /\ last.prev.before.facing = North
    /\ Unobstructed(matrix, last.prev.before.center[1],
                    last.prev.before.center[2])
    /\ last.prev.before.center[1] # spawnX
    /\ last.prev.before.center[2] < spawnY

----------------------------------------------------------------------------
(* Properties of the fall from the spawn point (SpecFall) *)

(* C14: on an empty matrix of 10 by 20, with the O piece where it spawns   *)
(* (column 4, row 20, North), each of the first 19 moveDown() calls lowers *)
(* the piece one row and returns false, and the 20th is the first to       *)
(* return true; it leaves the piece on the floor, blocked one row lower.   *)
C14_OLandsOnTheTwentiethMoveDown ==
    (last.op = "moveDown" /\ tetrimino = "O" /\ matrix = EmptyMatrix)
        => LET t == pieces[tetrimino]
           IN  /\ ~last.exc
               /\ last.n <= 19 => (~last.ret /\ t.center = <<spawnX, spawnY - last.n>>)
               /\ last.n = 20
                     => /\ last.ret
                        /\ t.center = <<spawnX, 0>>
                        /\ Blocked(matrix, t.center[1], t.center[2] - 1, t.minos)

(* The 20th moveDown() of the O piece on the empty matrix has returned *)
C14_Witness ==
    /\ last.op = "moveDown" /\ last.n = 20 /\ last.ret
    /\ tetrimino = "O" /\ matrix = EmptyMatrix
    /\ matrixWidth = 10 /\ matrixHeight = 20

----------------------------------------------------------------------------
(* Properties of moveX (SpecPlay) *)

(* C15: moveX(dx), dx # 0, returns true if and only if the center column   *)
(* has changed, and then to the target column clamped into                 *)
(* 0..matrixWidth-1, which is free of collision at the current row; when   *)
(* it returns false the piece and the matrix are what they were.           *)
C15_MoveXTrueIffMoved ==
    [][(last'.op = "moveX" /\ ~last'.exc)
          => LET t == pieces[tetrimino]
                 u == pieces'[tetrimino]
             IN  /\ last'.ret <=> u.center[1] # t.center[1]
                 /\ last'.ret
                       => /\ u.center[1] = Max(0, Min(t.center[1] + last'.n,
                                                      matrixWidth - 1))
                          /\ ~Blocked(matrix, u.center[1], t.center[2], t.minos)
                 /\ ~last'.ret => (pieces' = pieces /\ matrix' = matrix)]_vars

(* moveX(-1) has returned true for a piece in the well at the left wall,   *)
(* its center in column 0 and the column to its right blocked: it was in   *)
(* column 0 before the call                                                *)
C15_Witness ==
    /\ last.op = "moveX" /\ last.n = -1 /\ ~last.exc /\ last.ret
    /\ pieces[tetrimino].center[1] = 0
    /\ Blocked(matrix, 1, pieces[tetrimino].center[2], pieces[tetrimino].minos)

----------------------------------------------------------------------------
(* Properties of lockDown (SpecLock) *)

(* The cells of the matrix that the piece in play occupies *)
ActiveCells ==
    LET t == pieces[tetrimino]
    IN  {<<t.center[1] + t.minos[i][1], t.center[2] + t.minos[i][2]>> :
            i \in 1..4}

(* The piece in play occupies four cells of the matrix *)
ActiveInside ==
    /\ Cardinality(ActiveCells) = 4
    /\ \A c \in ActiveCells : c[1] \in Cols /\ c[2] \in Rows

(* The step writes the shape of the piece in play into the cells it       *)
(* occupies and changes no other cell, nor linesCleared, nor level        *)
WritesActiveCells ==
    /\ \A y \in Rows, x \in Cols :
           matrix'[y][x] = IF <<x, y>> \in ActiveCells THEN tetrimino
                           ELSE matrix[y][x]
    /\ linesCleared' = linesCleared /\ level' = level

(* The step makes the next piece the piece in play and draws a new next   *)
(* piece from the bag                                                     *)
PromotesAndDraws ==
    /\ tetrimino' = nextTetrimino
    /\ bagIndex' = IF bagIndex >= Len(genBag) THEN 1 ELSE bagIndex + 1
    /\ bagIndex < Len(genBag) => genBag' = genBag
    /\ {genBag'[i] : i \in 1..Len(genBag')} = Shapes
    /\ nextTetrimino' = genBag'[bagIndex']

(* After the step the piece in play is at the spawn point, facing North,  *)
(* with its shape's initial offsets                                       *)
SpawnedAfter ==
    pieces'[tetrimino'] = [facing |-> North, minos |-> Minos[tetrimino'],
                           center |-> <<spawnX, spawnY>>]

----------------------------------------------------------------------------
(* Properties of the hard drop (SpecDrop) *)

(* The row a piece t comes to rest in when it goes straight down in m: the *)
(* highest row at or below its own with a collision one row lower          *)
GhostRow(m, t) ==
    LET rests == {y \in (-3)..t.center[2] :
                     Blocked(m, t.center[1], y - 1, t.minos)}
    IN  CHOOSE y \in rests : \A z \in rests : z <= y

(* m with the cells of piece t, its center in row y, holding `shape' *)
LockedAt(m, t, y, shape) ==
    [r \in Rows |-> [x \in Cols |->
        IF \E i \in 1..4 : <<x, r>> = <<t.center[1] + t.minos[i][1],
                                         y + t.minos[i][2]>>
        THEN shape ELSE m[r][x]]]

(* m with its full rows below matrixHeight taken out: the rows that are    *)
(* not full move down in their order, and the rows left over at the top    *)
(* receive the row matrixHeight                                            *)
FullRowsOut(m) ==
    LET kept == {y \in 0..(matrixHeight - 1) : ~RowFull(m, y)}
    IN  [r \in Rows |->
            IF r >= matrixHeight THEN m[r]
            ELSE IF r < Cardinality(kept)
                 THEN m[CHOOSE y \in kept :
                            Cardinality({z \in kept : z < y}) = r]
                 ELSE m[matrixHeight]]

(* C17: HumanController.hardDrop(), from any state of the controller,      *)
(* cancels a pending lock-down countdown, moves the active piece to the    *)
(* ghost row, locks it and clears the full lines, all in the one callback, *)
(* and ends with the lock-down timer unarmed and the fall timer armed, at  *)
(* the fall speed of the moment, for the piece that has spawned.           *)
C17_HardDropLocksInOneCallback ==
    [][(last'.op = "keydown" /\ last'.arg = " ")
          => LET t == pieces[tetrimino]
                 locked == LockedAt(matrix, t, GhostRow(matrix, t), tetrimino)
                 full == {y \in 0..(matrixHeight - 1) : RowFull(locked, y)}
             IN  /\ ~last'.exc
                 /\ matrix' = FullRowsOut(locked)
                 /\ linesCleared' = linesCleared + Cardinality(full)
                 /\ tetrimino' = nextTetrimino
                 /\ pieces'[tetrimino'].center = <<spawnX, spawnY>>
                 /\ last'.mid.lockDownTimer = NoTimer
                 /\ \A timer \in last'.mid.timers : timer.kind # "timeout"
                 /\ lockDownTimer' = NoTimer
                 /\ fallTimer' # NoTimer
                 /\ timers' = {[id |-> fallTimer', kind |-> "interval",
                                delay |-> getFallSpeed(G')]}]_vars

(* The space bar was pressed while a lock-down countdown was running; the  *)
(* piece has completed a line, which is cleared, and no countdown is left  *)
C17_Witness ==
    /\ last.op = "keydown" /\ last.arg = " " /\ ~last.exc
    /\ \E timer \in last.mid.before : timer.kind = "timeout"
    /\ linesCleared = 1
    /\ matrix[0] # EmptyRow
    /\ lockDownTimer = NoTimer /\ fallTimer # NoTimer

----------------------------------------------------------------------------
(* Properties of the ghost row and of hardDrop (SpecPlay) *)

(* moveDown() called again and again until it first returns true *)
RECURSIVE MovedDownUntilLanded(_)
MovedDownUntilLanded(g) ==
    Bind(moveDown(g),
         LAMBDA d : IF d.exc \/ d.ret THEN d ELSE MovedDownUntilLanded(d))

(* C18: with the active piece in a position that does not collide,         *)
(* getGhostTetriminoY() returns the lowest row the piece reaches going     *)
(* straight down without collision, one row above a collision, and         *)
(* hardDrop() puts the piece where repeated moveDown() calls put it when   *)
(* moveDown() first returns true; it changes the row of the piece and      *)
(* nothing else, and locks nothing.                                        *)
C18_HardDropIsMoveDownUntilLanded ==
    [][(/\ last'.op = "hardDrop"
        /\ ~Blocked(matrix, pieces[tetrimino].center[1],
                    pieces[tetrimino].center[2], pieces[tetrimino].minos))
          => LET t == pieces[tetrimino]
                 ghost == GhostRow(matrix, t)
                 landed == MovedDownUntilLanded(G)
             IN  /\ ~last'.exc
                 /\ getGhostTetriminoY(G) = [exc |-> FALSE, y |-> ghost]
                 /\ \A y \in ghost..t.center[2] :
                        ~Blocked(matrix, t.center[1], y, t.minos)
                 /\ Blocked(matrix, t.center[1], ghost - 1, t.minos)
                 /\ ~landed.exc /\ landed.ret
                 /\ pieces' = landed.pieces
                 /\ pieces' = [pieces EXCEPT ![tetrimino].center[2] = ghost]
                 /\ UNCHANGED <<matrix, tetrimino, nextTetrimino, genBag,
                                bagIndex, linesCleared, level>>]_vars

(* A piece turned away from North has been hard-dropped into a well of     *)
(* the board with two wells                                                *)
C18_Witness ==
    /\ last.op = "hardDrop" /\ ~last.exc
    /\ matrix # EmptyMatrix
    /\ pieces[tetrimino].facing # North
    /\ pieces[tetrimino].center[2] < WellDepth

----------------------------------------------------------------------------
(* Properties of reset (SpecReset) *)

(* C19: after reset(), whatever the state of the engine, every cell of    *)
(* the matrix, the buffer rows included, is empty, linesCleared (score)   *)
(* is 0 and level is 1, the bag holds the seven shapes in a new order     *)
(* with two of them drawn, the active and the next piece are its first    *)
(* two pieces, and the active piece is at the spawn point, facing North,  *)
(* with its initial offsets.                                              *)
C19_ResetStartsANewGame ==
    [][last'.op = "reset"
          => /\ ~last'.exc
             /\ \A y \in Rows, x \in Cols : matrix'[y][x] = Null
             /\ linesCleared' = 0
             /\ level' = 1
             /\ Len(genBag') = Cardinality(Shapes)
             /\ {genBag'[i] : i \in 1..Len(genBag')} = Shapes
             /\ bagIndex' = 2
             /\ tetrimino' = genBag'[1]
             /\ nextTetrimino' = genBag'[2]
             /\ SpawnedAfter]_vars

(* A game was reset after play: the matrix is empty, and a piece that is  *)
(* neither the active nor the next one still lies turned below the        *)
(* skyline, where it was locked                                           *)
C19_Witness ==
    /\ last.op = "reset"
    /\ matrix = EmptyMatrix
    /\ \E s \in Shapes \ {tetrimino, nextTetrimino} :
           /\ pieces[s].facing # North
           /\ pieces[s].center[2] < matrixHeight

----------------------------------------------------------------------------
(* Properties of hold (SpecHold) *)

(* C20: in src/game.ts, between two consecutive piece advances            *)
(* (swapNextTetrimino) or resets at most one hold() call returns true,    *)
(* and a hold() call that returns false changes nothing: not the active,  *)
(* the next or the held piece, not the bag or its cursor, not the matrix, *)
(* and no piece's place or facing.                                        *)
C20_OneHoldPerLockDown ==
    [][last'.op = "hold"
          => /\ ~last'.exc
             /\ last'.ret => hist.holds = 0
             /\ hist'.holds <= 1
             /\ ~last'.ret
                   => UNCHANGED <<matrix, pieces, tetrimino, nextTetrimino,
                                  heldTetrimino, canHold, genBag, bagIndex,
                                  linesCleared, level>>]_vars

(* A piece was advanced and held, and the hold() after that was refused:  *)
(* a piece is held, and the bag has been drawn from since the game began  *)
C20_Witness ==
    /\ last.op = "hold" /\ ~last.ret
    /\ hist.holds = 1
    /\ heldTetrimino \in Shapes
    /\ hist.draws > 3
    /\ matrix # EmptyMatrix

----------------------------------------------------------------------------
(* Properties of checkLockOut (SpecOut) *)

(* C21: checkLockOut() returns true if and only if every cell of the      *)
(* active piece is at or above the skyline (row matrixHeight and up), so  *)
(* a piece with a cell below the skyline is never reported locked out,    *)
(* and the call changes nothing.                                          *)
C21_LockOutIffWhollyAboveSkyline ==
    [][last'.op = "checkLockOut"
          => /\ ~last'.exc
             /\ last'.ret <=> \A c \in ActiveCells : c[2] >= matrixHeight
             /\ UNCHANGED <<matrix, pieces, tetrimino, nextTetrimino, genBag,
                            bagIndex, linesCleared, level, heldTetrimino,
                            canHold>>]_vars

(* The piece asked about lies across the skyline, and is not locked out *)
C21_Witness ==
    /\ last.op = "checkLockOut" /\ ~last.ret
    /\ \E c \in ActiveCells : c[2] >= matrixHeight
    /\ \E c \in ActiveCells : c[2] < matrixHeight

----------------------------------------------------------------------------
(* Properties of moveDown (SpecPlay) *)

(* C22: moveDown() lowers the active piece by at most one row and changes *)
(* nothing else: not its column, facing or offsets, no other piece, not   *)
(* the matrix.  It moves the piece exactly when the position one row      *)
(* below was free of collision before the call, and it returns true       *)
(* exactly when the position one row below the piece's new position       *)
(* collides.                                                              *)
C22_MoveDownOneRowAndReportsLanded ==
    [][(last'.op = "moveDown" /\ ~last'.exc)
          => LET t == pieces[tetrimino]
                 u == pieces'[tetrimino]
                 free == ~Blocked(matrix, t.center[1], t.center[2] - 1, t.minos)
             IN  /\ u = [t EXCEPT !.center[2] = IF free THEN @ - 1 ELSE @]
                 /\ \A s \in Shapes \ {tetrimino} : pieces'[s] = pieces[s]
                 /\ last'.ret <=> Blocked(matrix, u.center[1], u.center[2] - 1,
                                          u.minos)
                 /\ UNCHANGED <<matrix, tetrimino, nextTetrimino, genBag,
                                bagIndex, linesCleared, level>>]_vars

(* moveDown() has returned true for a turned piece that rests on the      *)
(* stack, above the floor                                                 *)
C22_Witness ==
    /\ last.op = "moveDown" /\ last.ret /\ ~last.exc
    /\ matrix # EmptyMatrix
    /\ pieces[tetrimino].facing # North
    /\ \A c \in ActiveCells : c[2] >= 1

(* C23: the callback of the expired lock-down countdown locks the active   *)
(* piece where it stands, clears every full line, and leaves the lock-down *)
(* timer unarmed and one timer running: the fall interval, armed with the  *)
(* fall speed of the level that holds after the clears.                    *)
C23_ExpiryLocksClearsAndRearms ==
    [][last'.op = "lockDownExpiry"
          => LET t == pieces[tetrimino]
                 locked == LockedAt(matrix, t, t.center[2], tetrimino)
                 full == {y \in 0..(matrixHeight - 1) : RowFull(locked, y)}
             IN  /\ ~last'.exc
                 /\ matrix' = FullRowsOut(locked)
                 /\ \A y \in 0..(matrixHeight - 1) : ~RowFull(matrix', y)
                 /\ linesCleared' = linesCleared + Cardinality(full)
                 /\ level' = 1 + linesCleared' \div linesPerLevel
                 /\ lockDownTimer' = NoTimer
                 /\ fallTimer' # NoTimer
                 /\ timers' = {[id |-> fallTimer', kind |-> "interval",
                                delay |-> getFallSpeed(G')]}]_vars

(* The countdown has expired on the piece that completed the tenth line:   *)
(* the level is 2, and the fall interval runs at the speed of level 2      *)
C23_Witness ==
    /\ last.op = "lockDownExpiry" /\ ~last.exc
    /\ linesCleared = linesPerLevel /\ level = 2
    /\ lockDownTimer = NoTimer
    /\ \E timer \in timers :
          /\ timer.id = fallTimer
          /\ timer.delay # getFallSpeed([G EXCEPT !.level = 1])

(* The keys of moveLeft, moveRight and rotate *)
TurnAndShiftKeys == {"ArrowLeft", "ArrowRight", "ArrowUp", "x", "z"}

(* C24: a keydown of a move or rotate key while the lock-down countdown is *)
(* armed: when the move reports success, the countdown is cancelled and    *)
(* the one live timer is the fall interval at the current fall speed;      *)
(* when it reports failure, the handles and the live timers are as before. *)
(* The report is the value of moveX or rotate: moveX also reports success  *)
(* when the clamp to the columns has left the piece where it was.          *)
C24_SuccessfulMoveCancelsCountdown ==
    [][(/\ last'.op = "keydown" /\ last'.arg \in TurnAndShiftKeys
        /\ ~last'.exc
        /\ lockDownTimer # NoTimer)
          => /\ last'.ret
                  => /\ lockDownTimer' = NoTimer
                     /\ fallTimer' # NoTimer
                     /\ timers' = {[id |-> fallTimer', kind |-> "interval",
                                    delay |-> getFallSpeed(G)]}
             /\ ~last'.ret
                  => /\ lockDownTimer' = lockDownTimer
                     /\ fallTimer' = fallTimer
                     /\ timers' = timers]_vars

(* A move to the side has succeeded while the countdown was running: the   *)
(* countdown's timeout was live when the key went down, and is not now     *)
C24_Witness ==
    /\ last.op = "keydown" /\ last.arg \in {"ArrowLeft", "ArrowRight"}
    /\ last.ret /\ ~last.exc
    /\ \E timer \in last.mid.before : timer.kind = "timeout"
    /\ \A timer \in timers : timer.kind = "interval"

(* The live timers with the fall interval replaced by one of the given    *)
(* delay under the handle id                                              *)
Rearmed(live, id, delay) ==
    {timer \in live : timer.kind = "timeout"}
        \cup {[id |-> id, kind |-> "interval", delay |-> delay]}

(* C25: a keydown of "ArrowDown" while not soft-dropping sets the flag and *)
(* moves the piece down once, if the row below is free; the piece not      *)
(* landed by that, the fall interval is the one live interval, at the      *)
(* normal fall speed divided by softDropSpeedFactor; the piece landed, the *)
(* one moveDown has cancelled that interval and armed the countdown.  A    *)
(* keydown of "ArrowDown" while soft-dropping changes nothing.  A keyup    *)
(* of "ArrowDown" while soft-dropping clears the flag and leaves the fall  *)
(* interval the one live interval, at the normal fall speed.               *)
C25_SoftDropRearmsTheFallLoop ==
    [][/\ (last'.op = "keydown" /\ last'.arg = "ArrowDown" /\ ~isSoftDropping)
          => LET t == pieces[tetrimino]
                 u == pieces'[tetrimino]
                 free == ~Blocked(matrix, t.center[1], t.center[2] - 1, t.minos)
                 landed == Blocked(matrix, u.center[1], u.center[2] - 1, u.minos)
                 normal == getFallSpeed([G EXCEPT !.isSoftDropping = FALSE])
             IN  /\ ~last'.exc
                 /\ isSoftDropping'
                 /\ pieces' = [pieces EXCEPT ![tetrimino].center[2] =
                                                IF free THEN @ - 1 ELSE @]
                 /\ ~landed
                      => /\ fallTimer' # NoTimer
                         /\ lockDownTimer' = lockDownTimer
                         /\ timers' = Rearmed(timers, fallTimer',
                                              normal \div softDropSpeedFactor)
                 /\ landed
                      => /\ fallTimer' = NoTimer
                         /\ lockDownTimer' # NoTimer
                         /\ timers' = {[id |-> lockDownTimer', kind |-> "timeout",
                                        delay |-> lockDownTimerMs * 1000]}
                 /\ UNCHANGED <<matrix, tetrimino, nextTetrimino, genBag,
                                bagIndex, linesCleared, level>>
       /\ (last'.op = "keydown" /\ last'.arg = "ArrowDown" /\ isSoftDropping)
          => UNCHANGED <<matrix, pieces, tetrimino, nextTetrimino, genBag,
                         bagIndex, linesCleared, level, fallTimer,
                         lockDownTimer, isSoftDropping, timers>>
       /\ (last'.op = "keyup" /\ isSoftDropping)
          => /\ ~isSoftDropping'
             /\ fallTimer' # NoTimer
             /\ timers' = Rearmed(timers, fallTimer',
                                  getFallSpeed([G EXCEPT !.isSoftDropping = FALSE]))
             /\ UNCHANGED <<matrix, pieces, tetrimino, nextTetrimino, genBag,
                            bagIndex, linesCleared, level, lockDownTimer>>]_vars

(* Soft drop was engaged at level 2 on a piece in the air: the piece is    *)
(* one row below the spawn row and the fall interval runs at a twentieth   *)
(* of the speed of level 2                                                 *)
C25_Witness ==
    /\ last.op = "keydown" /\ last.arg = "ArrowDown" /\ ~last.exc
    /\ isSoftDropping /\ level = 2
    /\ pieces[tetrimino].center[2] = spawnY - 1
    /\ \E timer \in timers :
          /\ timer.id = fallTimer
          /\ timer.delay * softDropSpeedFactor
                 <= getFallSpeed([G EXCEPT !.isSoftDropping = FALSE])

(* C26: between the callbacks, the live timers are at most one interval    *)
(* and at most one timeout, and each of them is the one its handle holds:  *)
(* no timer that can still fire has lost its handle, and no handle holds a *)
(* timer that is gone.                                                     *)
C26_OneTimerOfEachKind ==
    /\ \A timer \in timers :
          /\ timer.kind = "interval" => timer.id = fallTimer
          /\ timer.kind = "timeout" => timer.id = lockDownTimer
    /\ \A a, b \in timers : a.id = b.id => a = b
    /\ fallTimer # NoTimer
          => \E timer \in timers : timer.id = fallTimer /\ timer.kind = "interval"
    /\ lockDownTimer # NoTimer
          => \E timer \in timers : timer.id = lockDownTimer /\ timer.kind = "timeout"

(* The fall loop has been armed anew while a countdown was pending, by the *)
(* release of the soft drop: two timers are live, one of each kind         *)
C26_Witness ==
    /\ last.op = "keyup" /\ ~last.exc
    /\ fallTimer # NoTimer /\ lockDownTimer # NoTimer
    /\ Cardinality(timers) = 2

(* C27: between the callbacks, a live fall interval has the delay that     *)
(* getFallSpeed() gives for the level and the soft-drop flag of the        *)
(* moment: no callback changes the level or the flag and leaves an         *)
(* interval of the old speed running.                                      *)
C27_FallIntervalFollowsLevelAndFlag ==
    \A timer \in timers :
        timer.kind = "interval" => timer.delay = getFallSpeed(G)

(* The countdown has expired on the tenth line during a soft drop: the     *)
(* level has changed in the callback, and the interval armed by it runs    *)
(* at the soft-drop speed of level 2                                       *)
C27_Witness ==
    /\ last.op = "lockDownExpiry" /\ ~last.exc
    /\ level = 2 /\ isSoftDropping
    /\ \E timer \in timers : timer.id = fallTimer /\ timer.kind = "interval"

(* C28: clearLine(y), 0 <= y < matrixHeight, changes no row below y and no *)
(* row at or above matrixHeight, and writes into the row matrixHeight - 1  *)
(* the cells of the row matrixHeight.                                      *)
C28_ClearLineLeavesBufferAndRowsBelow ==
    [][last'.op = "clearLine"
          => /\ \A r \in Rows : r < last'.n => matrix'[r] = matrix[r]
             /\ \A r \in Rows : r >= matrixHeight => matrix'[r] = matrix[r]
             /\ matrix'[matrixHeight - 1] = matrix[matrixHeight]]_vars

(* A line above the bottom row was cleared with blocks in the buffer: the  *)
(* first buffer row, not empty and unlike the buffer row above it, stands  *)
(* in the top playable row as well                                         *)
C28_Witness ==
    /\ last.op = "clearLine" /\ last.n >= 1 /\ ~last.twice
    /\ matrix[0] # EmptyRow
    /\ matrix[matrixHeight] # EmptyRow
    /\ matrix[matrixHeight + 1] \notin {EmptyRow, matrix[matrixHeight]}
    /\ matrix[matrixHeight - 1] = matrix[matrixHeight]

(* The operations that the matrix is not for: the moves and the queries *)
MovesAndQueries ==
    {"moveX", "moveDown", "rotate", "hardDrop", "spawnTetrimino",
     "checkCollision", "getFullLines", "getGhostTetriminoY"}

(* C29: moveX, moveDown, rotate, hardDrop, spawnTetrimino, checkCollision, *)
(* getFullLines and getGhostTetriminoY change no matrix cell; lockDown     *)
(* changes four cells at most, and neither linesCleared nor level, which   *)
(* change in clearLine and in reset() only; reset() empties the matrix and *)
(* sets linesCleared to 0 and the level to 1.                              *)
C29_MatrixAndLevelChangeInLockClearAndReset ==
    [][/\ last'.op \in MovesAndQueries => matrix' = matrix
       /\ last'.op \notin {"clearLine", "reset"}
             => UNCHANGED <<linesCleared, level>>
       /\ last'.op = "lockDown"
             => \A r \in Rows, x \in Cols :
                    matrix'[r][x] # matrix[r][x] => <<x, r>> \in ActiveCells
       /\ last'.op = "reset"
             => matrix' = EmptyMatrix /\ linesCleared' = 0 /\ level' = 1]_vars

(* C29 as stated: the matrix changes in lockDown and clearLine only, and   *)
(* linesCleared and level in clearLine only.                               *)
C29_MatrixAndLevelChangeInLockAndClearOnly ==
    [][/\ last'.op \notin {"lockDown", "clearLine"} => matrix' = matrix
       /\ last'.op # "clearLine" => UNCHANGED <<linesCleared, level>>]_vars

(* A piece has been moved and then locked at level 2, on a matrix with     *)
(* blocks in it: the lines cleared are the ten of the start                *)
C29_Witness ==
    /\ last.op = "lockDown" /\ ~last.exc
    /\ hist.events >= 2
    /\ level = 2 /\ linesCleared = linesPerLevel
    /\ matrix # EmptyMatrix
    /\ pieces[tetrimino].center = <<spawnX, spawnY>>

(* C30: Controller.clearFullLines() on a matrix with nothing at or above   *)
(* the row matrixHeight: the rows that were not full stand in their order  *)
(* from row 0 up, every row above them is empty, and linesCleared has      *)
(* grown by the number of rows that were full.                             *)
C30_ClearFullLinesStacksTheRest ==
    [][(/\ last'.op = "clearFullLines"
        /\ \A r \in Rows : r >= matrixHeight => matrix[r] = EmptyRow)
          => LET kept == {y \in 0..(matrixHeight - 1) : ~RowFull(matrix, y)}
                 k == matrixHeight - Cardinality(kept)
             IN  /\ ~last'.exc
                 /\ \A y \in kept :
                        matrix'[Cardinality({z \in kept : z < y})] = matrix[y]
                 /\ \A r \in Rows :
                        r >= Cardinality(kept) => matrix'[r] = EmptyRow
                 /\ linesCleared' = linesCleared + k
                 /\ last'.n = k]_vars

(* The rows 0 and 2 were full and the row 1 between them was not: the row  *)
(* 1 is now the bottom row, the row that was fourth is above it, and the   *)
(* rest is empty                                                           *)
C30_Witness ==
    /\ last.op = "clearFullLines" /\ last.arg = <<2, 0>> /\ ~last.exc
    /\ linesCleared = 2
    /\ matrix[0] \notin {EmptyRow, matrix[1]}
    /\ matrix[1] # EmptyRow
    /\ \A r \in Rows : r >= 2 => matrix[r] = EmptyRow

(* C31: the active piece and the next piece are two objects: their shapes  *)
(* differ, the bag holding one object for each shape, and no rotate or     *)
(* hardDrop of the active piece changes the facing, the offsets or the     *)
(* center of the next piece.                                               *)
C31_ActiveAndNextAreTwoObjects ==
    [][/\ tetrimino' # nextTetrimino'
       /\ last'.op \in {"rotate", "hardDrop"}
             => pieces'[nextTetrimino] = pieces[nextTetrimino]]_vars

(* The last piece of a bag is in play and the reshuffled bag has given the *)
(* same object as the next piece: the active piece has been turned, and    *)
(* the next piece with it                                                  *)
C31_Witness ==
    /\ heldTetrimino = Undefined
    /\ last.op = "rotate" /\ last.ret /\ ~last.exc
    /\ tetrimino = nextTetrimino
    /\ bagIndex = 1
    /\ pieces[nextTetrimino].facing # North

(* C32: the next piece, which the renderer reads for the preview, faces    *)
(* North and has the initial offsets of its shape.                         *)
C32_NextPieceFacesNorth ==
    /\ pieces[nextTetrimino].facing = North
    /\ pieces[nextTetrimino].minos = Minos[nextTetrimino]

(* The next piece is another object than the piece in play, it was turned  *)
(* and locked when it was last in play, and it has come out of the bag as  *)
(* it was left                                                             *)
C32_Witness ==
    /\ heldTetrimino = Undefined
    /\ last.op = "lockDown" /\ ~last.exc
    /\ tetrimino # nextTetrimino
    /\ pieces[nextTetrimino].facing # North
    /\ pieces[nextTetrimino].minos # Minos[nextTetrimino]

(* C33: the countdown expires on a piece that rests on the floor or on a   *)
(* block, the position one row below it colliding, and the piece is        *)
(* locked there; a hard drop locks the piece in the lowest row it reaches, *)
(* the row below that colliding.                                           *)
C33_LockedPiecesRest ==
    [][/\ last'.op = "lockDownExpiry"
             => LET t == pieces[tetrimino]
                IN  /\ Blocked(matrix, t.center[1], t.center[2] - 1, t.minos)
                    /\ ~Blocked(matrix, t.center[1], t.center[2], t.minos)
                    /\ matrix' = FullRowsOut(
                                     LockedAt(matrix, t, t.center[2], tetrimino))
       /\ (last'.op = "keydown" /\ last'.arg = " ")
             => LET t == pieces[tetrimino]
                    y == GhostRow(matrix, t)
                IN  /\ Blocked(matrix, t.center[1], y - 1, t.minos)
                    /\ ~Blocked(matrix, t.center[1], y, t.minos)
                    /\ matrix' = FullRowsOut(LockedAt(matrix, t, y, tetrimino))]_vars

(* The countdown has expired on a piece that fell onto a stack of blocks:  *)
(* it is locked there and the fall loop runs for the piece that follows    *)
C33_Witness ==
    /\ last.op = "lockDownExpiry" /\ ~last.exc
    /\ matrix[0] # EmptyRow /\ matrix[1] # EmptyRow
    /\ fallTimer # NoTimer /\ lockDownTimer = NoTimer

(* The number of occupied cells of m *)
Occupied(m) == Cardinality({c \in Cols \X Rows : m[c[2]][c[1]] # Null})

(* C34: a piece is locked into empty cells only: at a lock-down expiry the *)
(* cells of the piece in play are empty, and at a hard drop the cells the  *)
(* piece has in the row it drops to are.                                   *)
C34_LockWritesEmptyCells ==
    [][/\ last'.op = "lockDownExpiry"
             => LET t == pieces[tetrimino]
                IN  ~Blocked(matrix, t.center[1], t.center[2], t.minos)
       /\ (last'.op = "keydown" /\ last'.arg = " ")
             => LET t == pieces[tetrimino]
                IN  ~Blocked(matrix, t.center[1], GhostRow(matrix, t),
                             t.minos)]_vars

(* A hard drop has locked a piece where it spawned, no line was ever       *)
(* cleared, and the blocks in the matrix are not four to a piece: cells    *)
(* of the piece locked before it were written again                        *)
C34_Witness ==
    /\ last.op = "keydown" /\ last.arg = " " /\ ~last.exc
    /\ linesCleared = 0
    /\ Occupied(matrix) = 4 * (Len(StraightDrops) + 2) - 2

(* C36: clearLine(y) of a full row y below matrixHeight leaves the matrix  *)
(* with matrixWidth occupied cells fewer than it had.                      *)
C36_ClearLineRemovesOneRowOfBlocks ==
    [][(/\ last'.op = "clearLine" /\ ~last'.exc
        /\ last'.n \in 0..(matrixHeight - 1)
        /\ RowFull(matrix, last'.n))
          => Occupied(matrix') = Occupied(matrix) - matrixWidth]_vars

(* clearLine(0) has removed the full bottom row of a matrix whose row      *)
(* matrixHeight holds blocks: they stand in row matrixHeight - 1 and in    *)
(* row matrixHeight both                                                   *)
C36_Witness ==
    /\ last.op = "clearLine" /\ ~last.exc /\ last.n = 0
    /\ hist.clears = 1
    /\ RowFull(matrix, 0)
    /\ matrix[matrixHeight] # EmptyRow
    /\ matrix[matrixHeight - 1] = matrix[matrixHeight]
    /\ Occupied(matrix) = 4 * Len(FullRowsScript)

(* C37: a keydown or a keyup of "ArrowDown" while the countdown is armed   *)
(* leaves it armed as it is: the same handle, its timeout still live.      *)
C37_SoftDropKeepsTheCountdown ==
    [][(/\ last'.op \in {"keydown", "keyup"} /\ last'.arg = "ArrowDown"
        /\ lockDownTimer # NoTimer)
          => /\ lockDownTimer' = lockDownTimer
             /\ \E timer \in timers' :
                    timer.id = lockDownTimer /\ timer.kind = "timeout"]_vars

(* A keydown of "ArrowDown" came with the countdown armed and the piece    *)
(* landed: the timeout that was live is cleared and another one is live    *)
(* under the handle                                                        *)
C37_Witness ==
    /\ last.op = "keydown" /\ last.arg = "ArrowDown" /\ ~last.exc
    /\ isSoftDropping
    /\ fallTimer = NoTimer
    /\ \E timer \in timers : timer.id = lockDownTimer /\ timer.kind = "timeout"
    /\ \E timer \in last.mid.before :
           /\ timer.kind = "timeout"
           /\ timer.id # lockDownTimer
           /\ timer \notin timers

(* C38: from start() on, after every callback the fall interval or the     *)
(* lock-down timeout is live under its handle.                             *)
C38_ATimerIsPending ==
    \/ \E timer \in timers : timer.id = fallTimer /\ timer.kind = "interval"
    \/ \E timer \in timers : timer.id = lockDownTimer /\ timer.kind = "timeout"

(* A key has moved or turned the piece while the countdown ran: the        *)
(* countdown is cancelled and the fall interval is live                    *)
C38_Witness ==
    /\ last.op = "keydown" /\ last.arg \in TurnAndShiftKeys
    /\ last.ret /\ ~last.exc
    /\ \E timer \in last.mid.before : timer.kind = "timeout"
    /\ lockDownTimer = NoTimer
    /\ \E timer \in timers : timer.id = fallTimer /\ timer.kind = "interval"

(* C40: after reset() of src/game.ts no piece is held and a hold is        *)
(* allowed; the matrix is empty, the score 0 and the level 1.              *)
C40_ResetEmptiesTheHold ==
    [][(last'.op = "reset" /\ ~last'.exc /\ heldTetrimino # Undefined)
          => /\ heldTetrimino' = Null
             /\ canHold'
             /\ matrix' = EmptyMatrix
             /\ linesCleared' = 0 /\ level' = 1]_vars

(* reset() was called with a piece held: the matrix is empty, a hold is    *)
(* allowed, and the piece held in the game before is still held            *)
C40_Witness ==
    /\ last.op = "reset" /\ ~last.exc
    /\ heldTetrimino \in Shapes
    /\ canHold
    /\ matrix = EmptyMatrix
    /\ linesCleared = 0 /\ level = 1
    /\ hist.resets = 1

(* C39: with the timers firing and no key pressed, a piece that falls is   *)
(* in the end reported landed (the countdown is armed), a landed piece is  *)
(* in the end locked, the piece after it standing where pieces spawn, and  *)
(* again and again, for ever, a piece is landed and a piece is locked.     *)
C39_PiecesLockForever ==
    LET locked == /\ last.op = "lockDownExpiry" /\ ~last.exc
                  /\ lockDownTimer = NoTimer
                  /\ pieces[tetrimino].center = <<spawnX, spawnY>>
                  /\ pieces[tetrimino].facing = North
    IN  /\ (fallTimer # NoTimer) ~> (lockDownTimer # NoTimer)
        /\ (lockDownTimer # NoTimer) ~> locked
        /\ []<>(lockDownTimer # NoTimer)
        /\ []<>locked

(* A piece has been locked by the countdown above the row pieces spawn in, *)
(* and the fall interval is live for the piece after it                    *)
C39_Witness ==
    /\ last.op = "lockDownExpiry" /\ ~last.exc
    /\ matrix[spawnY + 1] # EmptyRow
    /\ \E timer \in timers : timer.id = fallTimer /\ timer.kind = "interval"
    /\ lockDownTimer = NoTimer
    /\ hist.events = 0

(* C35: no call has thrown the TypeError of reading a matrix row that does *)
(* not exist, and the four cells of the piece in play lie in rows of the   *)
(* matrix array.                                                           *)
C35_EveryRowExists ==
    /\ ~last.exc
    /\ \A c \in ActiveCells : c[2] < 2 * matrixHeight

(* rotate(CW) has thrown with the piece centred in the top row of the      *)
(* matrix array: the turned piece reaches into the row 2 * matrixHeight,   *)
(* and the throw left it turned                                            *)
C35_Witness ==
    /\ last.op = "rotate" /\ last.arg = "CW" /\ last.exc
    /\ tetrimino = "L"
    /\ pieces[tetrimino].center = <<2, 2 * matrixHeight - 1>>
    /\ \E c \in ActiveCells : c[2] = 2 * matrixHeight

====
